---- MODULE Spec2Model ----
(***************************************************************************)
(* A model of the pyzenhub client: the response classifier and the date    *)
(* utilities (zenhub/utils.py), the rate window computation                *)
(* (zenhub/core/_rate.py), the operations on release reports, epics,       *)
(* dependencies, workspaces, boards and issues (zenhub/core) with the      *)
(* validation of their responses (zenhub/models.py), for one client        *)
(* instance and, under SpecShared, for two callers of one or two           *)
(* instances.                                                              *)
(*                                                                         *)
(* Python values are tagged records, so that values of different Python    *)
(* types can be compared: None, int, str, list, dict, datetime.            *)
(***************************************************************************)
EXTENDS Integers, Sequences, FiniteSets, TLC

VARIABLES
    _repo_id,   \* self._repo_id: the remembered repository id (None or int)
    shared,     \* whether the two callers A and B use the same instance
    second_repo_id,
                \* self._repo_id of the second instance, the one that B uses
                \* when the callers do not share
    callers,    \* where each caller is in the method it is in
    _output_models,
                \* self._output_models: whether the methods return the
                \* pydantic models (model mode) or dicts (dict mode)
    probe,      \* the server: its answer to the HEAD probe of rate_limit
                \* (status and headers)
    call        \* the last completed call: operation, arguments, the requests
                \* it sent, the responses it received, the remembered
                \* repository id it started from, its outcome

vars == <<_repo_id, shared, second_repo_id, callers, _output_models, probe, call>>

-----------------------------------------------------------------------------
(* Python values *)

PyNone == [t |-> "None"]

PyInt(i) == [t |-> "int", i |-> i]

PyStr(s) == [t |-> "str", s |-> s]

PyList(elems) == [t |-> "list", elems |-> elems]

PyDict(items) == [t |-> "dict", items |-> items]

PyBool(b) == [t |-> "bool", b |-> b]

\* An instance of the pydantic model class `cls`: a value for every field
\* of the class.
PyModel(cls, items) == [t |-> "model", items |-> items, cls |-> cls]

EmptyDict == PyDict(<<>>)

\* dict.get(key, default)
DictGet(d, key, default) ==
    IF key \in DOMAIN d.items THEN d.items[key] ELSE default

\* The outcome of a call: a returned value or a raised exception.
Return(value) == [value |-> value, kind |-> "return", exc |-> ""]

Raise(exc, value) == [value |-> value, kind |-> "raise", exc |-> exc]

-----------------------------------------------------------------------------
(* zenhub/exceptions.py: the exception classes and their base classes *)

ExceptionBases ==
    [ ZenhubError       |-> "Exception",
      InvalidTokenError |-> "ZenhubError",
      APILimitError     |-> "ZenhubError",
      NotFoundError     |-> "ZenhubError",
      ValidationError   |-> "ValueError",
      ValueError        |-> "Exception",
      TypeError         |-> "Exception",
      AttributeError    |-> "Exception",
      Exception         |-> "" ]

\* The base class of an exception class ("" above Exception).
BaseOf(exc) == ExceptionBases[exc]

RECURSIVE IsSubclass(_, _)
\* issubclass(exc, cls): what `except cls:` catches.
IsSubclass(exc, cls) ==
    IF exc = cls THEN TRUE
    ELSE IF exc = "" THEN FALSE
    ELSE IsSubclass(BaseOf(exc), cls)

\* `except handler:` around a call with this outcome catches its exception.
Catches(handler, outcome) ==
    outcome.kind = "raise" /\ IsSubclass(outcome.exc, handler)

-----------------------------------------------------------------------------
(* HTTP responses and response.json() *)

BodySuccess == "{\"message\": \"Success!\"}"

BodyValidation ==
    "{\"message\": \"Validation failed: Release must have at least one repository\"}"

BodyTitle == "{\"title\": \"Test Release\"}"

BodyReport == "{<a complete release report>}"

MessageSuccess == PyStr("Success!")

MessageValidation ==
    PyStr("Validation failed: Release must have at least one repository")

ReportValue ==
    PyDict([ release_id       |-> PyStr("59d3cd520a430a6344fd3bdb"),
             title            |-> PyStr("Test Release"),
             description      |-> PyStr(""),
             start_date       |-> PyStr("2017-10-01T19:00:00.000Z"),
             desired_end_date |-> PyStr("2017-10-03T19:00:00.000Z"),
             created_at       |-> PyStr("2017-10-03T17:48:02.701Z"),
             closed_at        |-> PyNone,
             state            |-> PyStr("open"),
             repositories     |-> PyList(<<PyInt(1)>>) ])

\* {"repo_id": ..., "issue_number": ...}
IssueValue(repo_id, issue_number) ==
    PyDict([repo_id |-> PyInt(repo_id), issue_number |-> PyInt(issue_number)])

\* A dependency as the server reports it, and one that lacks `blocked`.
DependencyValue ==
    PyDict([ blocking |-> IssueValue(1234567, 3953),
             blocked  |-> IssueValue(1234567, 1342) ])

DependencyNoBlocked == PyDict([blocking |-> IssueValue(1234567, 3953)])

\* Workspaces: with a null description, without a description, without the
\* required `id`.
WorkspaceDesign ==
    PyDict([ description  |-> PyNone,
             repositories |-> PyList(<<PyInt(12345678), PyInt(912345)>>),
             name         |-> PyStr("Design and UX"),
             id           |-> PyStr("5d0a7a9741fd098f6b7f58ac") ])

WorkspaceRoadmap ==
    PyDict([ repositories |-> PyList(<<PyInt(12345678)>>),
             name         |-> PyStr("Roadmap"),
             id           |-> PyStr("5d0a7cea41fd098f6b7f58b8") ])

WorkspaceNoId ==
    PyDict([ repositories |-> PyList(<<PyInt(12345678)>>),
             name         |-> PyStr("Roadmap") ])

\* The issues of a board pipeline: with an estimate, without one, and one
\* that lacks the required `is_epic`.
PipelineIssueEstimated ==
    PyDict([ issue_number |-> PyInt(303),
             estimate     |-> PyDict([value |-> PyInt(40)]),
             position     |-> PyInt(3),
             is_epic      |-> PyBool(FALSE) ])

PipelineIssuePlain ==
    PyDict([ issue_number |-> PyInt(284),
             position     |-> PyInt(2),
             is_epic      |-> PyBool(FALSE) ])

PipelineIssueNoEpic ==
    PyDict([ issue_number |-> PyInt(329), position |-> PyInt(7) ])

BoardPipelineValue(issues) ==
    PyDict([ name   |-> PyStr("Backlog"),
             id     |-> PyStr("595d430add03f01d32460081"),
             issues |-> PyList(issues) ])

EpicValue ==
    PyDict([ repo_id      |-> PyInt(1234567),
             issue_number |-> PyInt(3953),
             issue_url    |-> PyStr("https://github.com/RepoOwner/RepoName/issues/3953") ])

\* Response bodies of the operations, and the values they decode to.
\* An issue of a board of which the server sent the number only.
PipelineIssueNumberOnly == PyDict([issue_number |-> PyInt(279)])

\* The pipelines of the example response of get_issue_data.
PipelineQA ==
    PyDict([ name         |-> PyStr("QA"),
             pipeline_id  |-> PyStr("5d0a7a9741fd098f6b7f58a7"),
             workspace_id |-> PyStr("5d0a7a9741fd098f6b7f58ac") ])

PipelineDone ==
    PyDict([ name         |-> PyStr("Done"),
             pipeline_id  |-> PyStr("5d0a7cea41fd098f6b7f58b7"),
             workspace_id |-> PyStr("5d0a7cea41fd098f6b7f58b8") ])

PlusOne == PyDict([created_at |-> PyStr("2015-12-11T18:43:22.296Z")])

\* The example response of get_issue_data.
IssueDataFull ==
    PyDict([ estimate  |-> PyDict([value |-> PyInt(8)]),
             is_epic   |-> PyBool(TRUE),
             plus_ones |-> PyList(<<PlusOne>>),
             pipeline  |-> PipelineQA,
             pipelines |-> PyList(<<PipelineQA, PipelineDone>>) ])

\* An issue that has no estimate (zenhub/tests/test_issues.py).
IssueDataNoEstimate ==
    PyDict([ is_epic   |-> PyBool(FALSE),
             plus_ones |-> PyList(<<>>),
             pipeline  |-> PipelineQA,
             pipelines |-> PyList(<<PipelineQA>>) ])

\* An issue whose estimate is 0.
IssueDataEstimateZero ==
    PyDict([ estimate  |-> PyDict([value |-> PyInt(0)]),
             is_epic   |-> PyBool(FALSE),
             plus_ones |-> PyList(<<>>) ])

\* Issue data whose `pipeline` is none of its `pipelines`.
IssueDataOtherPipeline ==
    PyDict([ is_epic   |-> PyBool(FALSE),
             plus_ones |-> PyList(<<>>),
             pipeline  |-> PipelineQA,
             pipelines |-> PyList(<<PipelineDone>>) ])

\* Issue data with a `pipeline` and without `pipelines`.
IssueDataNoPipelines ==
    PyDict([ is_epic   |-> PyBool(FALSE),
             plus_ones |-> PyList(<<>>),
             pipeline  |-> PipelineQA ])

\* Issue data without the required `is_epic`.
IssueDataNoEpic == PyDict([plus_ones |-> PyList(<<>>)])

\* A str held by its characters.
Text(chars) == [t |-> "str", chars |-> chars]

\* The creation times of the events of the example response of
\* get_issue_events: 2015-12-11T19:43:22.296Z, ...T18:43:22.296Z,
\* ...T13:43:22.296Z, ...T12:43:22.296Z
CreatedAt(hour) ==
    Text(<<"2", "0", "1", "5", "-", "1", "2", "-", "1", "1", "T">>
             \o hour \o <<":", "4", "3", ":", "2", "2", ".", "2", "9", "6", "Z">>)

\* Estimate 8 removed: the newest event of the example response.
EventEstimateCleared ==
    PyDict([ created_at    |-> CreatedAt(<<"1", "9">>),
             user_id       |-> PyInt(16717),
             type          |-> PyStr("estimateIssue"),
             from_estimate |-> PyDict([value |-> PyInt(8)]) ])

\* Estimate changed from 4 to 8.
EventEstimateChanged ==
    PyDict([ created_at    |-> CreatedAt(<<"1", "8">>),
             user_id       |-> PyInt(16717),
             type          |-> PyStr("estimateIssue"),
             from_estimate |-> PyDict([value |-> PyInt(4)]),
             to_estimate   |-> PyDict([value |-> PyInt(8)]) ])

\* Issue moved from Backlog to In progress.
EventTransfer ==
    PyDict([ created_at    |-> CreatedAt(<<"1", "2">>),
             workspace_id  |-> PyStr("5d0a7a9741fd098f6b7f58ac"),
             user_id       |-> PyInt(16717),
             type          |-> PyStr("transferIssue"),
             from_pipeline |-> PyDict([name |-> PyStr("Backlog")]),
             to_pipeline   |-> PyDict([name |-> PyStr("In progress")]) ])

\* An event of a type that is neither estimateIssue nor transferIssue.
EventOtherType ==
    PyDict([ created_at |-> CreatedAt(<<"1", "3">>),
             user_id    |-> PyInt(16717),
             type       |-> PyStr("addEpic") ])

\* An estimate event without the required `user_id`.
EventNoUser ==
    PyDict([ created_at |-> CreatedAt(<<"1", "3">>),
             type       |-> PyStr("estimateIssue") ])

\* An event whose `created_at` is no date.
EventBadDate ==
    PyDict([ created_at |-> Text(<<"s", "o", "o", "n">>),
             user_id    |-> PyInt(16717),
             type       |-> PyStr("transferIssue") ])

\* An event without `type`.
EventNoType ==
    PyDict([ created_at |-> CreatedAt(<<"1", "3">>),
             user_id    |-> PyInt(16717) ])

BodyDependency == "{<a dependency>}"

BodyDependencyNoBlocked == "{<a dependency without blocked>}"

BodyDependencies == "{<dependencies: two dependencies>}"

BodyDependenciesOneBad == "{<dependencies: a dependency, a dependency without blocked>}"

BodyWorkspaces == "[<two workspaces>]"

BodyWorkspacesOneBad == "[<a workspace, a workspace without id, a workspace>]"

BodyReports == "[<two release reports>]"

BodyReportsOneBad == "[<a release report, a title only>]"

BodyIssues == "[<two issues>]"

BodyIssuesOneBad == "[<an issue, a number>]"

BodyAddedRemoved == "{<added: an issue, removed: none>}"

BodyAddedRemovedCount == "{<added: an issue, removed: none, count: 1>}"

BodyAddedOnly == "{<added: an issue>}"

BodyBoard == "{<pipelines: a pipeline of two issues>}"

BodyBoardOneBad == "{<pipelines: a pipeline of an issue and an issue without is_epic>}"

BodyEpics == "{<epic_issues: an epic>}"

BodyBoardNumberOnly == "{<pipelines: a pipeline of an issue with its number only>}"

BodyIssueData == "{<issue data: estimate, plus_ones, pipeline, pipelines, is_epic>}"

BodyIssueDataNoEstimate == "{<issue data: plus_ones, is_epic, pipelines, pipeline>}"

BodyIssueDataEstimateZero == "{<issue data: estimate 0, plus_ones, is_epic>}"

BodyIssueDataOtherPipeline == "{<issue data: pipeline QA, pipelines Done>}"

BodyIssueDataNoPipelines == "{<issue data: pipeline QA, no pipelines>}"

BodyIssueDataNoEpic == "{<issue data: plus_ones>}"

BodyEvents == "[<events: estimate at 19h, estimate at 18h, transfer at 12h>]"

BodyEventsOther == "[<events: estimate at 19h, addEpic at 13h, transfer at 12h>]"

BodyEventsUnordered == "[<events: transfer at 12h, estimate at 19h, estimate at 18h>]"

BodyEventsNoUser == "[<events: estimate at 19h, estimate without user_id>]"

BodyEventsBadDate == "[<events: estimate at 19h, transfer with created_at soon>]"

BodyEventsNoType == "[<events: estimate at 19h, event without type>]"

PayloadBodies ==
    { BodyDependency, BodyDependencyNoBlocked, BodyDependencies,
      BodyDependenciesOneBad, BodyWorkspaces, BodyWorkspacesOneBad,
      BodyReports, BodyReportsOneBad, BodyIssues, BodyIssuesOneBad,
      BodyAddedRemoved, BodyAddedRemovedCount, BodyAddedOnly, BodyBoard,
      BodyBoardOneBad, BodyEpics, BodyBoardNumberOnly, BodyIssueData,
      BodyIssueDataNoEstimate, BodyIssueDataEstimateZero,
      BodyIssueDataOtherPipeline, BodyIssueDataNoPipelines, BodyIssueDataNoEpic,
      BodyEvents, BodyEventsOther, BodyEventsUnordered, BodyEventsNoUser,
      BodyEventsBadDate, BodyEventsNoType }

\* json.loads of the response bodies of the operations.
PayloadValue(text) ==
    CASE text = BodyDependency -> DependencyValue
      [] text = BodyDependencyNoBlocked -> DependencyNoBlocked
      [] text = BodyDependencies ->
            PyDict([dependencies |-> PyList(<<DependencyValue, DependencyValue>>)])
      [] text = BodyDependenciesOneBad ->
            PyDict([dependencies |-> PyList(<<DependencyValue, DependencyNoBlocked>>)])
      [] text = BodyWorkspaces -> PyList(<<WorkspaceDesign, WorkspaceRoadmap>>)
      [] text = BodyWorkspacesOneBad ->
            PyList(<<WorkspaceDesign, WorkspaceNoId, WorkspaceRoadmap>>)
      [] text = BodyReports -> PyList(<<ReportValue, ReportValue>>)
      [] text = BodyReportsOneBad ->
            PyList(<<ReportValue, PyDict([title |-> PyStr("Test Release")])>>)
      [] text = BodyIssues -> PyList(<<IssueValue(103707262, 2), IssueValue(103707262, 3)>>)
      [] text = BodyIssuesOneBad -> PyList(<<IssueValue(103707262, 2), PyInt(3)>>)
      [] text = BodyAddedRemoved ->
            PyDict([ added   |-> PyList(<<IssueValue(103707262, 3)>>),
                     removed |-> PyList(<<>>) ])
      [] text = BodyAddedRemovedCount ->
            PyDict([ added   |-> PyList(<<IssueValue(103707262, 3)>>),
                     removed |-> PyList(<<>>),
                     count   |-> PyInt(1) ])
      [] text = BodyAddedOnly ->
            PyDict([added |-> PyList(<<IssueValue(103707262, 3)>>)])
      [] text = BodyBoard ->
            PyDict([pipelines |-> PyList(<<
                BoardPipelineValue(<<PipelineIssueEstimated, PipelineIssuePlain>>) >>)])
      [] text = BodyBoardOneBad ->
            PyDict([pipelines |-> PyList(<<
                BoardPipelineValue(<<PipelineIssueEstimated, PipelineIssueNoEpic>>) >>)])
      [] text = BodyEpics -> PyDict([epic_issues |-> PyList(<<EpicValue>>)])
      [] text = BodyBoardNumberOnly ->
            PyDict([pipelines |-> PyList(<<
                BoardPipelineValue(<<PipelineIssueNumberOnly>>) >>)])
      [] text = BodyIssueData -> IssueDataFull
      [] text = BodyIssueDataNoEstimate -> IssueDataNoEstimate
      [] text = BodyIssueDataEstimateZero -> IssueDataEstimateZero
      [] text = BodyIssueDataOtherPipeline -> IssueDataOtherPipeline
      [] text = BodyIssueDataNoPipelines -> IssueDataNoPipelines
      [] text = BodyIssueDataNoEpic -> IssueDataNoEpic
      [] text = BodyEvents ->
            PyList(<<EventEstimateCleared, EventEstimateChanged, EventTransfer>>)
      [] text = BodyEventsOther ->
            PyList(<<EventEstimateCleared, EventOtherType, EventTransfer>>)
      [] text = BodyEventsUnordered ->
            PyList(<<EventTransfer, EventEstimateCleared, EventEstimateChanged>>)
      [] text = BodyEventsNoUser -> PyList(<<EventEstimateCleared, EventNoUser>>)
      [] text = BodyEventsBadDate -> PyList(<<EventEstimateCleared, EventBadDate>>)
      [] text = BodyEventsNoType -> PyList(<<EventEstimateCleared, EventNoType>>)

\* The response bodies the server sends: JSON objects with and without a
\* `message`, JSON values that are no object, and text that is no JSON.
Bodies ==
    { "", "bb", "<html>Bad Gateway</html>", "{}", BodySuccess,
      BodyValidation, BodyTitle, BodyReport, "[\"x\"]", "[]", "\"oops\"",
      "null", "3" }

\* json.loads(text): the decoded value, or a raised JSONDecodeError
\* (a ValueError).
JsonLoads(text) ==
    CASE text = "{}"            -> Return(EmptyDict)
      [] text = BodySuccess     -> Return(PyDict([message |-> MessageSuccess]))
      [] text = BodyValidation  -> Return(PyDict([message |-> MessageValidation]))
      [] text = BodyTitle       -> Return(PyDict([title |-> PyStr("Test Release")]))
      [] text = BodyReport      -> Return(ReportValue)
      [] text = "[\"x\"]"       -> Return(PyList(<<PyStr("x")>>))
      [] text = "[]"            -> Return(PyList(<<>>))
      [] text = "\"oops\""      -> Return(PyStr("oops"))
      [] text = "null"          -> Return(PyNone)
      [] text = "3"             -> Return(PyInt(3))
      [] text \in PayloadBodies -> Return(PayloadValue(text))
      [] OTHER                  -> Raise("ValueError", PyStr("JSONDecodeError"))

StatusCodes == {200, 201, 204, 400, 401, 403, 404, 409, 500}

Response(status_code, text) == [text |-> text, status_code |-> status_code]

Responses == { Response(s, b) : s \in StatusCodes, b \in Bodies }

-----------------------------------------------------------------------------
(* zenhub/utils.py: parse_response_contents *)

\* try: contents = response.json() / except Exception: contents = {}
ResponseContents(response) ==
    LET decoded == JsonLoads(response.text)
    IN  IF decoded.kind = "raise" THEN EmptyDict ELSE decoded.value

\* contents.get("message", "Unknown error!"); raise ZenhubError(message).
\* Only a dict has `get`: on any other decoded value the attribute lookup
\* raises AttributeError.
RaiseGenericError(contents) ==
    IF contents.t = "dict"
    THEN Raise("ZenhubError", DictGet(contents, "message", PyStr("Unknown error!")))
    ELSE Raise("AttributeError", PyStr("object has no attribute 'get'"))

Mutant_parse_response_contents_Empty(response) ==
    LET status_code == response.status_code
    IN  IF status_code \in {200, 204} THEN Return(EmptyDict)
        ELSE IF status_code = 401 THEN Raise("InvalidTokenError", PyStr("Invalid token!"))
        ELSE IF status_code = 403
             THEN Raise("APILimitError",
                        PyStr("Reached request limit to the API. See API Limits."))
        ELSE IF status_code = 404 THEN Raise("NotFoundError", PyStr("Not found!"))
        ELSE RaiseGenericError(ResponseContents(response))

Mutant_parse_response_contents_BodyFirst(response) ==
    LET status_code == response.status_code
        contents    == ResponseContents(response)
    IN  IF status_code \in {200, 204} THEN Return(contents)
        ELSE IF contents.t = "dict" /\ "message" \in DOMAIN contents.items
             THEN RaiseGenericError(contents)
        ELSE IF status_code = 401 THEN Raise("InvalidTokenError", PyStr("Invalid token!"))
        ELSE IF status_code = 403
             THEN Raise("APILimitError",
                        PyStr("Reached request limit to the API. See API Limits."))
        ELSE IF status_code = 404 THEN Raise("NotFoundError", PyStr("Not found!"))
        ELSE RaiseGenericError(contents)

parse_response_contents(response) ==
    LET status_code == response.status_code
        contents    == ResponseContents(response)
    IN  IF status_code \in {200, 204} THEN Return(contents)
        ELSE IF status_code = 401 THEN Raise("InvalidTokenError", PyStr("Invalid token!"))
        ELSE IF status_code = 403
             THEN Raise("APILimitError",
                        PyStr("Reached request limit to the API. See API Limits."))
        ELSE IF status_code = 404 THEN Raise("NotFoundError", PyStr("Not found!"))
        ELSE RaiseGenericError(contents)

-----------------------------------------------------------------------------
(* datetime.datetime: a naive or timezone-aware instant, held as the seconds
   since 1970-01-01T00:00:00 (wall clock for a naive one, UTC for an aware
   one), the microsecond within the second and, for an aware one, the
   offset of its timezone from UTC in minutes *)

SecondsPerDay == 24 * 60 * 60

IsLeap(y) == (y % 4 = 0) /\ ((y % 100 # 0) \/ (y % 400 = 0))

\* Days before January 1st of year y (proleptic Gregorian ordinal).
DaysBeforeYear(y) ==
    LET p == y - 1
    IN  p * 365 + (p \div 4) - (p \div 100) + (p \div 400)

DaysBeforeMonthTable == <<0, 31, 59, 90, 120, 151, 181, 212, 243, 273, 304, 334>>

DaysBeforeMonth(y, m) ==
    DaysBeforeMonthTable[m] + (IF m > 2 /\ IsLeap(y) THEN 1 ELSE 0)

\* date.toordinal()
ToOrdinal(y, m, d) == DaysBeforeYear(y) + DaysBeforeMonth(y, m) + d

\* Seconds from 1970-01-01T00:00:00 to the given calendar fields.
SecondsOf(y, m, d, hh, mm, ss) ==
    (ToOrdinal(y, m, d) - ToOrdinal(1970, 1, 1)) * SecondsPerDay
        + hh * 3600 + mm * 60 + ss

DatetimeAt(ts, microsecond, aware, utcoffset) ==
    [ t |-> "datetime", ts |-> ts, microsecond |-> microsecond,
      aware |-> aware, utcoffset |-> utcoffset ]

\* A datetime of whole seconds, naive or in UTC.
Datetime(ts, aware) == DatetimeAt(ts, 0, aware, 0)

\* a == b on datetimes: a naive and an aware one are never equal, two aware
\* ones are equal when they are the same instant.
DatetimeEq(a, b) ==
    a.aware = b.aware /\ a.ts = b.ts /\ a.microsecond = b.microsecond

\* a > b on datetimes: comparing a naive with an aware datetime raises
\* TypeError.
DatetimeGt(a, b) ==
    IF a.aware # b.aware
    THEN Raise("TypeError",
               PyStr("can't compare offset-naive and offset-aware datetimes"))
    ELSE Return(PyBool(a.ts > b.ts))

\* datetime.timedelta(seconds=n), normalized as Python does: 0 <= seconds <
\* 86400, the sign carried by days.
Timedelta(n) ==
    [ t |-> "timedelta", days |-> n \div SecondsPerDay,
      seconds |-> n % SecondsPerDay ]

\* a - b on two aware datetimes.
DatetimeSub(a, b) == Timedelta(a.ts - b.ts)

\* The dates of the calls: the naive datetimes 2020-01-01 and the days that
\* follow it in steps of 90 days (zenhub/tests/test_utils.py), and the
\* timezone-aware 2020-01-01T00:00:00+00:00.
MaxDateSteps == 1

DateStepDays == 90

Datetimes ==
    { Datetime(SecondsOf(2020, 1, 1, 0, 0, 0) + k * DateStepDays * SecondsPerDay, FALSE) :
        k \in 0..MaxDateSteps }
    \cup { Datetime(SecondsOf(2020, 1, 1, 0, 0, 0), TRUE) }

-----------------------------------------------------------------------------
(* zenhub/utils.py: check_dates *)

Mutant_check_dates_Strict(start_date, desired_end_date) ==
    LET later == DatetimeGt(start_date, desired_end_date)
    IN  IF later.kind = "raise" THEN later
        ELSE IF later.value.b \/ start_date.ts = desired_end_date.ts
             THEN Raise("ValueError", PyStr("Start date must be before end date."))
        ELSE Return(PyBool(TRUE))

check_dates(start_date, desired_end_date) ==
    LET later == DatetimeGt(start_date, desired_end_date)
    IN  IF later.kind = "raise" THEN later
        ELSE IF later.value.b
             THEN Raise("ValueError", PyStr("Start date must be before end date."))
        ELSE Return(PyBool(TRUE))

-----------------------------------------------------------------------------
(* Decimal digits *)

DigitChars == <<"0", "1", "2", "3", "4", "5", "6", "7", "8", "9">>

IsDigit(c) == \E i \in 1..10 : DigitChars[i] = c

DigitOf(c) == (CHOOSE i \in 1..10 : DigitChars[i] = c) - 1

RECURSIVE DigitsValue(_)
\* The number that a sequence of decimal digits writes.
DigitsValue(chars) ==
    IF chars = <<>> THEN 0
    ELSE DigitsValue(SubSeq(chars, 1, Len(chars) - 1)) * 10
             + DigitOf(chars[Len(chars)])

RECURSIVE IntToChars(_)
\* The decimal digits of a natural number (how the server writes one).
IntToChars(n) ==
    IF n < 10 THEN <<DigitChars[n + 1]>>
    ELSE Append(IntToChars(n \div 10), DigitChars[(n % 10) + 1])

-----------------------------------------------------------------------------
(* zenhub/utils.py: date_to_string and string_to_date.  A date string is held
   as the sequence of its characters. *)

RECURSIVE Pad(_, _)
\* The last `width` decimal digits of n, with leading zeros.
Pad(n, width) ==
    IF width = 0 THEN <<>>
    ELSE Append(Pad(n \div 10, width - 1), DigitChars[(n % 10) + 1])

\* The days of month m of year y.
DaysInMonth(y, m) ==
    IF m = 12 THEN 31 ELSE DaysBeforeMonth(y, m + 1) - DaysBeforeMonth(y, m)

\* The calendar fields of the wall clock of a datetime: the local time of
\* an aware one is its UTC time plus the offset of its timezone.
Fields(date) ==
    LET wall == date.ts + date.utcoffset * 60
        ord  == wall \div SecondsPerDay + ToOrdinal(1970, 1, 1)
        sod  == wall % SecondsPerDay
        y    == CHOOSE yy \in (ord \div 366)..(ord \div 365 + 1) :
                    DaysBeforeYear(yy) < ord /\ ord <= DaysBeforeYear(yy + 1)
        doy  == ord - DaysBeforeYear(y)
        m    == CHOOSE mm \in 1..12 :
                    /\ DaysBeforeMonth(y, mm) < doy
                    /\ doy <= DaysBeforeMonth(y, mm) + DaysInMonth(y, mm)
    IN  [ hour |-> sod \div 3600, month |-> m, year |-> y,
          day |-> doy - DaysBeforeMonth(y, m), minute |-> (sod % 3600) \div 60,
          second |-> sod % 60 ]

\* utcoffset as isoformat writes it: +HH:MM or -HH:MM, nothing for a naive
\* datetime.
OffsetChars(date) ==
    IF ~date.aware THEN <<>>
    ELSE LET minutes == IF date.utcoffset < 0 THEN 0 - date.utcoffset
                        ELSE date.utcoffset
         IN  <<IF date.utcoffset < 0 THEN "-" ELSE "+">>
                 \o Pad(minutes \div 60, 2) \o <<":">> \o Pad(minutes % 60, 2)

\* The date and the time to the second, as isoformat writes them.
SecondsChars(date) ==
    LET f == Fields(date)
    IN  Pad(f.year, 4) \o <<"-">> \o Pad(f.month, 2) \o <<"-">> \o Pad(f.day, 2)
            \o <<"T">> \o Pad(f.hour, 2) \o <<":">> \o Pad(f.minute, 2)
            \o <<":">> \o Pad(f.second, 2)

\* date.isoformat(timespec='milliseconds'): the microsecond is cut to
\* milliseconds, the offset of an aware datetime comes last.
isoformat_milliseconds(date) ==
    SecondsChars(date) \o <<".">> \o Pad(date.microsecond \div 1000, 3)
        \o OffsetChars(date)

Mutant_date_to_string_Auto(date) ==
    SecondsChars(date)
        \o (IF date.microsecond = 0 THEN <<>>
            ELSE <<".">> \o Pad(date.microsecond, 6))
        \o OffsetChars(date) \o <<"Z">>

\* date_to_string
date_to_string(date) == isoformat_milliseconds(date) \o <<"Z">>

\* The number written by the characters a..b of a string, or -1 when they
\* are not all decimal digits.
Number(chars, a, b) ==
    IF b <= Len(chars) /\ \A i \in a..b : IsDigit(chars[i])
    THEN DigitsValue(SubSeq(chars, a, b))
    ELSE -1

\* datetime.datetime.fromisoformat(date_string) on the formats that
\* isoformat writes: YYYY-MM-DD, then a separator and
\* HH[:MM[:SS[.fff[fff]]]], then an offset +HH:MM or -HH:MM; any other text
\* is a ValueError.
fromisoformat(chars) ==
    LET n       == Len(chars)
        signs   == { i \in 12..n : chars[i] \in {"+", "-"} }
        tz_pos  == IF signs = {} THEN n + 1
                   ELSE CHOOSE i \in signs : \A j \in signs : i <= j
        t_len   == tz_pos - 12
        year    == Number(chars, 1, 4)
        month   == Number(chars, 6, 7)
        day     == Number(chars, 9, 10)
        hour    == IF t_len >= 2 THEN Number(chars, 12, 13) ELSE 0
        minute  == IF t_len >= 5 THEN Number(chars, 15, 16) ELSE 0
        second  == IF t_len >= 8 THEN Number(chars, 18, 19) ELSE 0
        micro   == CASE t_len = 12 -> Number(chars, 21, 23) * 1000
                     [] t_len = 15 -> Number(chars, 21, 26)
                     [] OTHER -> 0
        aware   == signs # {}
        tz_hh   == IF aware THEN Number(chars, tz_pos + 1, tz_pos + 2) ELSE 0
        tz_mm   == IF aware THEN Number(chars, tz_pos + 4, tz_pos + 5) ELSE 0
        offset  == (IF aware /\ chars[tz_pos] = "-" THEN -1 ELSE 1)
                       * (tz_hh * 60 + tz_mm)
        shaped  ==
            /\ n >= 10
            /\ chars[5] = "-" /\ chars[8] = "-"
            /\ (n = 10 \/ n = 11 \/ t_len \in {2, 5, 8, 12, 15})
            /\ t_len >= 5 => chars[14] = ":"
            /\ t_len >= 8 => chars[17] = ":"
            /\ t_len >= 12 => chars[20] = "."
            /\ aware => (n = tz_pos + 5 /\ chars[tz_pos + 3] = ":")
        ranged  ==
            /\ year >= 1 /\ month \in 1..12
            /\ day >= 1 /\ day <= DaysInMonth(year, month)
            /\ hour \in 0..23 /\ minute \in 0..59 /\ second \in 0..59
            /\ micro >= 0
            /\ tz_hh \in 0..23 /\ tz_mm \in 0..59
        wall    == SecondsOf(year, month, day, hour, minute, second)
    IN  IF shaped /\ ranged
        THEN Return(DatetimeAt(wall - offset * 60, micro, aware, offset))
        ELSE Raise("ValueError", PyStr("Invalid isoformat string"))

Mutant_string_to_date_KeepZ(date_string) == fromisoformat(date_string)

\* string_to_date: a trailing Z is dropped before the text is parsed.
string_to_date(date_string) ==
    IF date_string # <<>> /\ date_string[Len(date_string)] = "Z"
    THEN fromisoformat(SubSeq(date_string, 1, Len(date_string) - 1))
    ELSE fromisoformat(date_string)

-----------------------------------------------------------------------------
(* The client: requests, the release report model, the operations of
   ReleaseReportsMixin.  An operation is a function of the client's
   remembered repository id, the arguments and the response the server
   gives; it yields the repository id remembered afterwards, the requests
   sent and the outcome. *)

MaxRepo == 2

RepoIds == { PyInt(i) : i \in 1..MaxRepo }

RELEASE_REPORT == PyStr("Z2lkOi8vcmFwdG9yL1JlbGVhc2UvNzcyNTE")

\* The state arguments of edit_release_report: None, the two legal states,
\* an illegal one.
ReportStates == { PyNone, PyStr("open"), PyStr("closed"), PyStr("BLAH") }

\* self._session.<method>(url=self._make_url(url)): the url is the path
\* template with the repository and release ids put into it.
Request(method, path, repo_id, release_id) ==
    [ release_id |-> release_id, repo_id |-> repo_id, method |-> method,
      path |-> path ]

\* What an operation did: the repository id remembered afterwards, the
\* requests sent, the outcome.
Done(repo, sent, outcome) == [outcome |-> outcome, repo |-> repo, sent |-> sent]

\* The error responses of the server: the three statuses with a kind of
\* their own, and a server error with a JSON object or a JSON array.
ErrorResponses ==
    { Response(401, "{}"), Response(403, "{}"), Response(404, BodySuccess),
      Response(500, BodyValidation), Response(500, "[\"x\"]") }

\* The responses the server gives to the requests of the release report
\* operations.
ClientResponses ==
    { Response(200, b) : b \in {BodyReport, "{}", "[\"x\"]"} } \cup ErrorResponses

ReleaseReportRequired ==
    { "release_id", "title", "description", "start_date", "desired_end_date",
      "created_at", "state" }

ReleaseReportOptional == { "closed_at", "repositories" }

\* ReleaseReport.parse_obj(data) and, in dict mode,
\* model.dict(include=data.keys()): a body that is no JSON object, or lacks a
\* required field, or holds another value than a string in a required
\* field, is a pydantic ValidationError (a ValueError); otherwise the fields
\* of the model that the body named.
ReleaseReportDict(data) ==
    IF \/ data.t # "dict"
       \/ ~(ReleaseReportRequired \subseteq DOMAIN data.items)
       \/ \E k \in ReleaseReportRequired : data.items[k].t # "str"
    THEN Raise("ValidationError", PyStr("validation error for ReleaseReport"))
    ELSE Return(PyDict([ k \in DOMAIN data.items
                             \cap (ReleaseReportRequired \cup ReleaseReportOptional)
                         |-> data.items[k] ]))

\* model if self._output_models else model.dict(include=data.keys()), of
\* ReleaseReport.parse_obj(data): in model mode the model, with None in the
\* optional fields the body did not name.
ReleaseReportOutput(data) ==
    LET dict == ReleaseReportDict(data)
    IN  IF dict.kind = "raise" \/ ~_output_models THEN dict
        ELSE Return(PyModel("ReleaseReport",
                            [ k \in ReleaseReportRequired \cup ReleaseReportOptional |->
                                IF k \in DOMAIN data.items THEN data.items[k]
                                ELSE PyNone ]))

\* ReleaseReportsMixin.create_release_report
create_release_report(self_repo_id, repo_id, start_date, desired_end_date, response) ==
    LET checked == check_dates(start_date, desired_end_date)
        request == Request("POST", "/p1/repositories/:repo_id/reports/release",
                           repo_id, PyNone)
        data    == parse_response_contents(response)
    IN  IF checked.kind = "raise" THEN Done(repo_id, <<>>, checked)
        ELSE IF data.kind = "raise" THEN Done(repo_id, <<request>>, data)
        ELSE Done(repo_id, <<request>>, ReleaseReportOutput(data.value))

Mutant_edit_release_report_StateAfterPatch(self_repo_id, release_id, start_date, desired_end_date, state, response) ==
    LET checked == check_dates(start_date, desired_end_date)
        request == Request("PATCH", "/p1/reports/release/:release_id",
                           PyNone, release_id)
        data    == parse_response_contents(response)
    IN  IF checked.kind = "raise" THEN Done(self_repo_id, <<>>, checked)
        ELSE IF data.kind = "raise" THEN Done(self_repo_id, <<request>>, data)
        ELSE IF state # PyNone /\ state \notin {PyStr("open"), PyStr("closed")}
             THEN Done(self_repo_id, <<request>>,
                       Raise("ValueError", PyStr("state must be 'open' or 'closed'")))
        ELSE Done(self_repo_id, <<request>>, ReleaseReportOutput(data.value))

\* ReleaseReportsMixin.edit_release_report
edit_release_report(self_repo_id, release_id, start_date, desired_end_date, state, response) ==
    LET checked == check_dates(start_date, desired_end_date)
        request == Request("PATCH", "/p1/reports/release/:release_id",
                           PyNone, release_id)
        data    == parse_response_contents(response)
    IN  IF checked.kind = "raise" THEN Done(self_repo_id, <<>>, checked)
        ELSE IF state # PyNone /\ state \notin {PyStr("open"), PyStr("closed")}
             THEN Done(self_repo_id, <<>>,
                       Raise("ValueError", PyStr("state must be 'open' or 'closed'")))
        ELSE IF data.kind = "raise" THEN Done(self_repo_id, <<request>>, data)
        ELSE Done(self_repo_id, <<request>>, ReleaseReportOutput(data.value))

\* ReleaseReportsMixin.add_repo_to_release_report
add_repo_to_release_report(self_repo_id, release_id, repo_id, response) ==
    LET request == Request("POST", "/p1/reports/release/:release_id/repository/:repo_id",
                           repo_id, release_id)
        data    == parse_response_contents(response)
    IN  IF data.kind = "raise" THEN Done(repo_id, <<request>>, data)
        ELSE Done(repo_id, <<request>>, Return(PyBool(data.value = EmptyDict)))

\* ReleaseReportsMixin.remove_repo_from_release_report
remove_repo_from_release_report(self_repo_id, release_id, repo_id, response) ==
    LET request == Request("DELETE", "/p1/reports/release/:release_id/repository/:repo_id",
                           repo_id, release_id)
        data    == parse_response_contents(response)
    IN  IF data.kind = "raise" THEN Done(repo_id, <<request>>, data)
        ELSE Done(repo_id, <<request>>, Return(PyBool(data.value = EmptyDict)))

-----------------------------------------------------------------------------
(* zenhub/models.py: the pydantic models, Model.parse_obj(data) and
   model.dict(include=data.keys()).  The values of the response bodies here
   are None, ints, strs, bools, lists and dicts of the types the fields
   declare or not; none is a value that pydantic would convert to the
   declared type. *)

TInt == [k |-> "int"]

TStr == [k |-> "str"]

TBool == [k |-> "bool"]

TDict == [k |-> "dict"]

\* Union[IssuePosition, int]
TPosition == [k |-> "position"]

\* datetime.datetime
TDatetime == [k |-> "datetime"]

\* IssueEventType: one of the event types
TEventType == [k |-> "literal", values |-> {PyStr("estimateIssue"), PyStr("transferIssue")}]

\* List[of]
TList(of) == [k |-> "list", of |-> of]

\* A field whose type is a model.
TModel(name) == [name |-> name, k |-> "model"]

\* field: type
Required(type) == [type |-> type, required |-> TRUE]

\* field: Optional[type]
Optional(type) == [type |-> type, required |-> FALSE]

\* The fields of Event, which EstimateIssueEvent and TransferIssueEvent
\* inherit.
EventFields ==
    [ created_at |-> Required(TDatetime),
      user_id    |-> Required(TInt),
      type       |-> Required(TEventType) ]

Models ==
    [ IssueEstimate  |-> [ value |-> Required(TInt) ],
      PipelineName   |-> [ name |-> Required(TStr) ],
      EstimateIssueEvent |->
          [ created_at    |-> EventFields.created_at,
            user_id       |-> EventFields.user_id,
            type          |-> EventFields.type,
            from_estimate |-> Optional(TModel("IssueEstimate")),
            to_estimate   |-> Optional(TModel("IssueEstimate")) ],
      TransferIssueEvent |->
          [ created_at    |-> EventFields.created_at,
            user_id       |-> EventFields.user_id,
            type          |-> EventFields.type,
            from_pipeline |-> Optional(TModel("PipelineName")),
            to_pipeline   |-> Optional(TModel("PipelineName")),
            Workspace_id  |-> Optional(TStr) ],
      PlusOnes       |-> [ created_at |-> Required(TStr) ],
      Pipeline       |-> [ name         |-> Required(TStr),
                           pipeline_id  |-> Required(TStr),
                           workspace_id |-> Required(TStr) ],
      IssueData      |-> [ repo_id   |-> Optional(TInt),
                           estimate  |-> Optional(TModel("IssueEstimate")),
                           is_epic   |-> Required(TBool),
                           plus_ones |-> Required(TList(TModel("PlusOnes"))),
                           pipeline  |-> Optional(TModel("Pipeline")),
                           pipelines |-> Optional(TList(TModel("Pipeline"))) ],
      Issue          |-> [ repo_id      |-> Required(TInt),
                           issue_number |-> Required(TInt) ],
      AddRemoveIssue |-> [ added   |-> Required(TList(TModel("Issue"))),
                           removed |-> Required(TList(TModel("Issue"))) ],
      Dependency     |-> [ blocking |-> Required(TModel("Issue")),
                           blocked  |-> Required(TModel("Issue")) ],
      Dependencies   |-> [ dependencies |-> Required(TList(TModel("Dependency"))) ],
      Workspace      |-> [ description  |-> Optional(TStr),
                           repositories |-> Required(TList(TInt)),
                           name         |-> Required(TStr),
                           id           |-> Required(TStr) ],
      PipelineIssue  |-> [ issue_number |-> Required(TInt),
                           estimate     |-> Optional(TDict),
                           position     |-> Required(TPosition),
                           is_epic      |-> Required(TBool) ],
      BoardPipeline  |-> [ name   |-> Required(TStr),
                           id     |-> Required(TStr),
                           issues |-> Required(TList(TModel("PipelineIssue"))) ],
      Board          |-> [ pipelines |-> Required(TList(TModel("BoardPipeline"))) ],
      Epic           |-> [ repo_id      |-> Required(TInt),
                           issue_number |-> Required(TInt),
                           issue_url    |-> Required(TStr) ],
      Epics          |-> [ epic_issues |-> Required(TList(TModel("Epic"))) ] ]

\* A str ends in Z.
EndsWithZ(chars) == chars # <<>> /\ chars[Len(chars)] = "Z"

\* The datetime that pydantic makes of what fromisoformat read in a text
\* of `length` characters: the text holds the time to the minute at least,
\* and a Z at its end makes the datetime one in UTC.
ValidatedDatetime(parsed, zulu, length) ==
    IF parsed.kind = "raise" \/ length < 16 \/ (zulu /\ parsed.value.aware)
    THEN Raise("ValidationError", PyStr("invalid datetime format"))
    ELSE IF zulu
         THEN Return(DatetimeAt(parsed.value.ts, parsed.value.microsecond, TRUE, 0))
    ELSE parsed

\* pydantic's datetime of a str: the ISO 8601 date and time that the server
\* writes.  Any other text is not a valid datetime.
parse_datetime(v) ==
    IF v.t # "str" \/ "chars" \notin DOMAIN v
    THEN Raise("ValidationError", PyStr("invalid datetime format"))
    ELSE IF EndsWithZ(v.chars)
         THEN ValidatedDatetime(fromisoformat(SubSeq(v.chars, 1, Len(v.chars) - 1)),
                                TRUE, Len(v.chars) - 1)
    ELSE ValidatedDatetime(fromisoformat(v.chars), FALSE, Len(v.chars))

RECURSIVE Valid(_, _)
\* The value is one of the type: a list validates each of its elements, a
\* model each of its fields; a required field must be there and not None,
\* an optional one may be missing or None; keys that are no fields are
\* ignored.
Valid(type, v) ==
    CASE type.k = "int"  -> v.t = "int"
      [] type.k = "str"  -> v.t = "str"
      [] type.k = "bool" -> v.t = "bool"
      [] type.k = "dict" -> v.t = "dict"
      [] type.k = "position" -> v.t = "int" \/ v \in {PyStr("top"), PyStr("bottom")}
      [] type.k = "literal" -> v \in type.values
      [] type.k = "datetime" -> parse_datetime(v).kind = "return"
      [] type.k = "list" ->
            /\ v.t = "list"
            /\ \A i \in DOMAIN v.elems : Valid(type.of, v.elems[i])
      [] type.k = "model" ->
            /\ v.t = "dict"
            /\ \A f \in DOMAIN Models[type.name] :
                   LET field == Models[type.name][f]
                   IN  IF f \in DOMAIN v.items /\ v.items[f] # PyNone
                       THEN Valid(field.type, v.items[f])
                       ELSE ~field.required

RECURSIVE ModelDict(_, _)
\* model.dict() of a validated value: every field of a model, None for an
\* optional field that was missing.
ModelDict(type, v) ==
    CASE type.k = "datetime" -> parse_datetime(v).value
      [] type.k = "list" ->
            PyList([i \in DOMAIN v.elems |-> ModelDict(type.of, v.elems[i])])
      [] type.k = "model" ->
            PyDict([ f \in DOMAIN Models[type.name] |->
                       IF f \in DOMAIN v.items /\ v.items[f] # PyNone
                       THEN ModelDict(Models[type.name][f].type, v.items[f])
                       ELSE PyNone ])
      [] OTHER -> v

\* dict(include=keys): the top-level keys that are in `keys`.
Include(d, keys) ==
    PyDict([k \in DOMAIN d.items \cap keys |-> d.items[k]])

RECURSIVE ExcludeNone(_)
\* dict(exclude_none=True): without the keys whose value is None, at every
\* level.
ExcludeNone(v) ==
    CASE v.t = "dict" ->
            PyDict([ k \in { j \in DOMAIN v.items : v.items[j] # PyNone } |->
                       ExcludeNone(v.items[k]) ])
      [] v.t = "list" -> PyList([i \in DOMAIN v.elems |-> ExcludeNone(v.elems[i])])
      [] OTHER -> v

\* Model.parse_obj(data): a ValidationError (a ValueError) when data is no
\* dict or is not valid.
parse_obj(name, data) ==
    IF data.t = "dict" /\ Valid(TModel(name), data)
    THEN Return(ModelDict(TModel(name), data))
    ELSE Raise("ValidationError", PyStr("validation error"))

Mutant_ModelOutput_AllFields(name, data) == parse_obj(name, data)

\* model = Model.parse_obj(data), then
\* model if self._output_models else model.dict(include=data.keys())
ModelOutput(name, data) ==
    LET model == parse_obj(name, data)
    IN  IF model.kind = "raise" THEN model
        ELSE IF _output_models THEN Return(PyModel(name, model.value.items))
        ELSE Return(Include(model.value, DOMAIN data.items))

\* model = Board.parse_obj(data), then model if self._output_models else
\* model.dict(include=data.keys(), exclude_none=True)
BoardOutput(data) ==
    LET model == parse_obj("Board", data)
    IN  IF model.kind = "raise" THEN model
        ELSE IF _output_models THEN Return(PyModel("Board", model.value.items))
        ELSE Return(ExcludeNone(Include(model.value, DOMAIN data.items)))

\* `for item in data`: the elements of a list, the keys of a dict; None and
\* an int are not iterable.
Iterate(data) ==
    CASE data.t = "list" -> Return(data.elems)
      [] data.t = "dict" ->
            Return(IF data = EmptyDict THEN <<>>
                   ELSE LET keys == DOMAIN data.items
                            order == CHOOSE q \in [1..Cardinality(keys) -> keys] :
                                         \A k \in keys : \E i \in DOMAIN q : q[i] = k
                        IN  [i \in DOMAIN order |-> PyStr(order[i])])
      [] data.t \in {"None", "int"} ->
            Raise("TypeError", PyStr("object is not iterable"))

\* [Output(item) for item in data]: the outputs of the elements, or the
\* error of the first element that raises.
ListOutput(Output(_), data) ==
    LET items == Iterate(data)
    IN  IF items.kind = "raise" THEN items
        ELSE LET elems == items.value
                 bad   == { i \in DOMAIN elems : Output(elems[i]).kind = "raise" }
             IN  IF bad # {}
                 THEN Output(elems[CHOOSE i \in bad : \A j \in bad : i <= j])
                 ELSE Return(PyList([i \in DOMAIN elems |-> Output(elems[i]).value]))

WorkspaceOutput(item) == ModelOutput("Workspace", item)

IssueOutput(item) == ModelOutput("Issue", item)

-----------------------------------------------------------------------------
(* The operations of EpicsMixin, DependenciesMixin, WorkspacesMixin,
   ReleaseReportIssuesMixin and get_release_reports *)

\* What a method does once its request is made: the error of the
\* classifier, or the output made of the decoded body.
Requested(repo, request, response, Output(_)) ==
    LET data == parse_response_contents(response)
    IN  IF data.kind = "raise" THEN Done(repo, <<request>>, data)
        ELSE Done(repo, <<request>>, Output(data.value))

EpicsOutput(data) == ModelOutput("Epics", data)

\* EpicsMixin.get_epics
get_epics(self_repo_id, repo_id, response) ==
    Requested(repo_id,
              Request("GET", "/p1/repositories/:repo_id/epics", repo_id, PyNone),
              response, EpicsOutput)

DependenciesOutput(data) == ModelOutput("Dependencies", data)

\* DependenciesMixin.get_dependencies
get_dependencies(self_repo_id, repo_id, response) ==
    Requested(repo_id,
              Request("GET", "/p1/repositories/:repo_id/dependencies", repo_id, PyNone),
              response, DependenciesOutput)

DependencyOutput(data) == ModelOutput("Dependency", data)

\* DependenciesMixin.create_dependency: the blocked repository is the one
\* remembered.
create_dependency(self_repo_id, blocking_repo_id, blocked_repo_id, response) ==
    Requested(blocked_repo_id,
              Request("POST", "/p1/dependencies", PyNone, PyNone),
              response, DependencyOutput)

Mutant_WorkspacesOutput_SkipInvalid(data) ==
    LET items == Iterate(data)
    IN  IF items.kind = "raise" THEN items
        ELSE Return(PyList(SelectSeq([i \in DOMAIN items.value |->
                                          WorkspaceOutput(items.value[i])],
                                     LAMBDA o : o.kind = "return")))

WorkspacesOutput(data) == ListOutput(WorkspaceOutput, data)

\* WorkspacesMixin.get_workspaces
get_workspaces(self_repo_id, repo_id, response) ==
    Requested(repo_id,
              Request("GET", "/p2/repositories/:repo_id/workspaces", repo_id, PyNone),
              response, WorkspacesOutput)

\* WorkspacesMixin.get_oldest_repository_board
get_oldest_repository_board(self_repo_id, repo_id, response) ==
    Requested(repo_id,
              Request("GET", "/p1/repositories/:repo_id/board", repo_id, PyNone),
              response, BoardOutput)

\* WorkspacesMixin.get_repository_board
get_repository_board(self_repo_id, workspace_id, repo_id, response) ==
    Requested(repo_id,
              Request("GET", "/p2/workspaces/:workspace_id/repositories/:repo_id/board",
                      repo_id, PyNone),
              response, BoardOutput)

Mutant_IssueDataOutput_Defaults(data) ==
    LET model == parse_obj("IssueData", data)
    IN  IF model.kind = "raise" THEN model
        ELSE LET filled == [ f \in DOMAIN model.value.items |->
                               IF model.value.items[f] = PyNone THEN PyInt(0)
                               ELSE model.value.items[f] ]
             IN  Return(IF _output_models THEN PyModel("IssueData", filled)
                        ELSE PyDict(filled))

IssueDataOutput(data) == ModelOutput("IssueData", data)

\* IssuesMixin.get_issue_data
get_issue_data(self_repo_id, repo_id, issue_number, response) ==
    Requested(repo_id,
              Request("GET", "/p1/repositories/:repo_id/issues/:issue_number",
                      repo_id, PyNone),
              response, IssueDataOutput)

\* event["type"]: the value of the key of a dict; a dict without the key
\* raises KeyError, and None, an int, a str and a list have no str keys.
Subscript(event, key) ==
    IF event.t = "dict"
    THEN IF key \in DOMAIN event.items THEN Return(event.items[key])
         ELSE Raise("KeyError", PyStr(key))
    ELSE Raise("TypeError", PyStr("indices must be integers"))

\* The model that parse_obj made, or its error.
AsModel(name, model) ==
    IF model.kind = "raise" THEN model ELSE Return(PyModel(name, model.value.items))

\* The branches of the loop of get_issue_events on event["type"].
EventOfType(type, event) ==
    IF type.kind = "raise" THEN type
    ELSE IF type.value = PyStr("estimateIssue")
         THEN AsModel("EstimateIssueEvent", parse_obj("EstimateIssueEvent", event))
    ELSE IF type.value = PyStr("transferIssue")
         THEN AsModel("TransferIssueEvent", parse_obj("TransferIssueEvent", event))
    ELSE Return(PyNone)

\* One turn of the loop of get_issue_events: the model of an event of
\* type estimateIssue or transferIssue, None for any other type.
EventModel(event) == EventOfType(Subscript(event, "type"), event)

\* The first of the outcomes that is an error, if one is.
FirstRaise(outcomes) ==
    LET bad == { i \in DOMAIN outcomes : outcomes[i].kind = "raise" }
    IN  IF bad = {} THEN Return(PyNone)
        ELSE outcomes[CHOOSE i \in bad : \A j \in bad : i <= j]

\* The values that the outcomes return.
Values(outcomes) == [i \in DOMAIN outcomes |-> outcomes[i].value]

Reversed(seq) == [i \in DOMAIN seq |-> seq[Len(seq) + 1 - i]]

Mutant_EventModels_KeepAll(events, models, failed) ==
    IF failed.kind = "raise" THEN failed
    ELSE IF _output_models THEN Return(PyList(Values(models)))
    ELSE Return(events)

Mutant_EventModels_Reversed(events, models, failed) ==
    IF failed.kind = "raise" THEN failed
    ELSE IF _output_models
         THEN Return(PyList(Reversed(SelectSeq(Values(models), LAMBDA m : m # PyNone))))
    ELSE Return(events)

\* What get_issue_events returns when `models` are the outcomes of the
\* turns of its loop and `failed` the first error among them: that error,
\* or the models in the order of the response, or the response itself.
EventModels(events, models, failed) ==
    IF failed.kind = "raise" THEN failed
    ELSE IF _output_models
         THEN Return(PyList(SelectSeq(Values(models), LAMBDA m : m # PyNone)))
    ELSE Return(events)

\* The turns of the loop over the items of the response.
EventsLoop(events, items) ==
    EventModels(events, items, FirstRaise(items))

\* The loop of get_issue_events and its return.
EventsOutput(events) ==
    IF Iterate(events).kind = "raise" THEN Iterate(events)
    ELSE EventsLoop(events, [i \in DOMAIN Iterate(events).value |->
                                EventModel(Iterate(events).value[i])])

\* IssuesMixin.get_issue_events
get_issue_events(self_repo_id, repo_id, issue_number, response) ==
    Requested(repo_id,
              Request("GET", "/p1/repositories/:repo_id/issues/:issue_number/events",
                      repo_id, PyNone),
              response, EventsOutput)

ReleaseReportsOutput(data) == ListOutput(ReleaseReportOutput, data)

\* ReleaseReportsMixin.get_release_reports
get_release_reports(self_repo_id, repo_id, response) ==
    Requested(repo_id,
              Request("GET", "/p1/repositories/:repo_id/reports/releases", repo_id, PyNone),
              response, ReleaseReportsOutput)

IssuesOutput(data) == ListOutput(IssueOutput, data)

\* ReleaseReportIssuesMixin.get_release_report_issues
get_release_report_issues(self_repo_id, release_id, response) ==
    Requested(self_repo_id,
              Request("GET", "/p1/reports/release/:release_id/issues", PyNone, release_id),
              response, IssuesOutput)

AddRemoveIssueOutput(data) == ModelOutput("AddRemoveIssue", data)

\* ReleaseReportIssuesMixin.add_or_remove_issues_from_release_report
add_or_remove_issues_from_release_report(self_repo_id, release_id, response) ==
    Requested(self_repo_id,
              Request("PATCH", "/p1/reports/release/:release_id/issues", PyNone, release_id),
              response, AddRemoveIssueOutput)

-----------------------------------------------------------------------------
(* zenhub/core/_rate.py: the response headers of the HEAD probe *)

\* A header that the response does not carry.
Absent == [t |-> "absent"]

\* A header value that is text, held as its characters.
HeaderText(chars) == [t |-> "str", chars |-> chars]

\* A header value that is a date text `wd, dd month yyyy hh:mm:ss tz`,
\* held as its fields.
DateText(wd, dd, month, yyyy, hh, mm, ss, tz) ==
    [ t |-> "str",
      date |-> [ hh |-> hh, mm |-> mm, ss |-> ss, month |-> month,
                 wd |-> wd, dd |-> dd, yyyy |-> yyyy, tz |-> tz ] ]

\* int(x): an int is itself; text is a number when it is an optional sign
\* followed by decimal digits, else ValueError; None is a TypeError.
int(x) ==
    CASE x.t = "int"  -> Return(x)
      [] x.t = "None" -> Raise("TypeError", PyStr("int() argument must be a string or a number"))
      [] x.t = "str"  ->
            IF "chars" \notin DOMAIN x
            THEN Raise("ValueError", PyStr("invalid literal for int()"))
            ELSE LET chars  == x.chars
                     signed == chars # <<>> /\ chars[1] \in {"+", "-"}
                     digits == IF signed THEN Tail(chars) ELSE chars
                 IN  IF digits = <<>> \/ \E i \in 1..Len(digits) : ~IsDigit(digits[i])
                     THEN Raise("ValueError", PyStr("invalid literal for int()"))
                     ELSE Return(PyInt(IF signed /\ chars[1] = "-"
                                       THEN 0 - DigitsValue(digits)
                                       ELSE DigitsValue(digits)))

\* try: v = int(x) / except Exception: v = -1
IntOrMinusOne(x) ==
    LET v == int(x) IN IF v.kind = "raise" THEN PyInt(-1) ELSE v.value

WeekdayNames == {"Mon", "Tue", "Wed", "Thu", "Fri", "Sat", "Sun"}

\* %B: the full month names, and the number of each.
MonthNumber ==
    [ January |-> 1, February |-> 2, March |-> 3, April |-> 4, May |-> 5,
      June |-> 6, July |-> 7, August |-> 8, September |-> 9, October |-> 10,
      November |-> 11, December |-> 12 ]

\* datetime.datetime.strptime(x, '%a, %d %B %Y %H:%M:%S %Z')
\*     .replace(tzinfo=datetime.timezone.utc):
\* a TypeError when x is no text, a ValueError when the text does not match
\* the format (%a an abbreviated weekday, %B a full month name, %Z GMT or
\* UTC), else the aware datetime of the fields.
strptime(x) ==
    IF x.t # "str"
    THEN Raise("TypeError", PyStr("strptime() argument 1 must be str"))
    ELSE IF "date" \notin DOMAIN x
    THEN Raise("ValueError", PyStr("time data does not match format"))
    ELSE LET d == x.date
         IN  IF /\ d.wd \in WeekdayNames
                /\ d.month \in DOMAIN MonthNumber
                /\ d.tz \in {"GMT", "UTC"}
             THEN Return(Datetime(SecondsOf(d.yyyy, MonthNumber[d.month], d.dd,
                                            d.hh, d.mm, d.ss), TRUE))
             ELSE Raise("ValueError", PyStr("time data does not match format"))

\* datetime.datetime.fromtimestamp(ts, tz=datetime.timezone.utc)
fromtimestamp(ts) == Datetime(ts, TRUE)

\* headers.get(name, -1)
HeadersGet(headers, name) ==
    IF headers[name] = Absent THEN PyInt(-1) ELSE headers[name]

Headers(used, limit, reset, date) ==
    [ date |-> date, used |-> used, limit |-> limit, reset |-> reset ]

\* The snapshot that rate_limit returns in dict mode.
RateLimit(limit, used, reset) ==
    PyDict([used |-> used, limit |-> limit, reset |-> reset])

\* model = RateLimit(limit=..., used=..., reset=...), then
\* model if self._output_models else model.dict()
RateLimitOutput(limit, used, reset) ==
    IF _output_models THEN PyModel("RateLimit", RateLimit(limit, used, reset).items)
    ELSE RateLimit(limit, used, reset)

\* (date_reset - date_machine).seconds
Mutant_ResetSeconds_Signed(date_reset, date_machine) ==
    date_reset.ts - date_machine.ts

ResetSeconds(date_reset, date_machine) ==
    DatetimeSub(date_reset, date_machine).seconds

\* RateMixin.rate_limit, from the headers on (lines 62 to 98)
RateWindow(headers) ==
    LET limit_used_string       == HeadersGet(headers, "used")
        limit_allowed_string    == HeadersGet(headers, "limit")
        limit_reset_time_string == HeadersGet(headers, "reset")
        server_date_string      == HeadersGet(headers, "date")
        limit_used       == IntOrMinusOne(limit_used_string)
        limit_allowed    == IntOrMinusOne(limit_allowed_string)
        limit_reset_time == IntOrMinusOne(limit_reset_time_string)
    IN  IF limit_reset_time # PyInt(-1) \/ server_date_string # PyInt(-1)
        THEN LET date_reset   == fromtimestamp(limit_reset_time.i)
                 date_machine == strptime(server_date_string)
             IN  IF date_machine.kind = "raise" THEN date_machine
                 ELSE Return(RateLimitOutput(limit_allowed, limit_used,
                                             PyInt(ResetSeconds(date_reset, date_machine.value))))
        ELSE Return(RateLimitOutput(limit_allowed, limit_used, PyInt(-1)))

\* bool(x) of None or an int
Truthy(x) == x # PyNone /\ x # PyInt(0)

Mutant_rate_limit_RememberedFirst(self_repo_id, repo_id, response) ==
    LET probed  == IF Truthy(self_repo_id) THEN self_repo_id ELSE repo_id
        request == Request("HEAD", "/p2/repositories/:repo_id/workspaces",
                           probed, PyNone)
    IN  IF probed = PyNone
        THEN Done(self_repo_id, <<>>,
                  Raise("ZenhubError",
                        PyStr("Need to make at least one request using the repo_id parameter!")))
        ELSE Done(self_repo_id, <<request>>, RateWindow(response.headers))

Mutant_rate_limit_Remembers(self_repo_id, repo_id, response) ==
    LET probed  == IF Truthy(repo_id) THEN repo_id ELSE self_repo_id
        request == Request("HEAD", "/p2/repositories/:repo_id/workspaces",
                           probed, PyNone)
    IN  IF probed = PyNone
        THEN Done(self_repo_id, <<>>,
                  Raise("ZenhubError",
                        PyStr("Need to make at least one request using the repo_id parameter!")))
        ELSE Done(probed, <<request>>, RateWindow(response.headers))

\* The response to self._session.head(...): its status and its headers.
HeadResponse(status_code, headers) ==
    [status_code |-> status_code, headers |-> headers]

\* RateMixin.rate_limit with RateMixin._headers: the probed repository is
\* `repo_id or self._repo_id`; of the HEAD response only the headers are
\* used, its status is not looked at; self._repo_id is not assigned.
rate_limit(self_repo_id, repo_id, response) ==
    LET probed  == IF Truthy(repo_id) THEN repo_id ELSE self_repo_id
        request == Request("HEAD", "/p2/repositories/:repo_id/workspaces",
                           probed, PyNone)
    IN  IF probed = PyNone
        THEN Done(self_repo_id, <<>>,
                  Raise("ZenhubError",
                        PyStr("Need to make at least one request using the repo_id parameter!")))
        ELSE Done(self_repo_id, <<request>>, RateWindow(response.headers))

\* The server's clock when it answers the probe: Mon, 30 May 2022 22:43:37
\* GMT (the example of _rate.py), and a date of another month.
ServerDateMay == DateText("Mon", 30, "May", 2022, 22, 43, 37, "GMT")

ServerDateNov == DateText("Tue", 1, "Nov", 2022, 0, 0, 10, "GMT")

ServerSeconds == SecondsOf(2022, 5, 30, 22, 43, 37)

\* The reset instant lies MaxWindow seconds after the server's clock, or is
\* the same instant, or lies MaxLag seconds before it, or more than a day
\* after it.
MaxWindow == 58

MaxLag == 5

ResetOffsets == { MaxWindow, 0, 0 - MaxLag, SecondsPerDay + MaxLag }

NotANumber == HeaderText(<<"1", "e", "2">>)

UsedHeaders == { Absent, PyNone, NotANumber, HeaderText(<<"3">>) }

LimitHeaders == { Absent, PyNone, NotANumber, HeaderText(<<"1", "0", "0">>) }

ResetHeaders ==
    { Absent, PyNone, NotANumber }
    \cup { HeaderText(IntToChars(ServerSeconds + k)) : k \in ResetOffsets }

DateHeaders ==
    { Absent, PyNone, HeaderText(<<"s", "o", "o", "n">>), ServerDateMay, ServerDateNov }

RateHeaders ==
    { Headers(u, l, r, d) :
        u \in UsedHeaders, l \in LimitHeaders, r \in ResetHeaders, d \in DateHeaders }

-----------------------------------------------------------------------------
(* The operations that return a bool: IssuesMixin.move_issue and
   move_issue_in_oldest_workspace, EpicsMixin.convert_epic_to_issue and
   convert_issue_to_epic, DependenciesMixin.remove_dependency *)

WORKSPACE == PyStr("5d0a7a9741fd098f6b7f58ac")

PIPELINE == PyStr("5d0a7a9741fd098f6b7f58a7")

ISSUE_NUMBER == PyInt(3953)

\* The positions an issue is moved to.
Positions == { PyStr("top"), PyStr("bottom"), PyInt(1) }

\* bool(x)
bool(x) ==
    CASE x.t = "None" -> FALSE
      [] x.t = "bool" -> x.b
      [] x.t = "int"  -> x.i # 0
      [] x.t = "str"  -> x.s # ""
      [] x.t = "list" -> x.elems # <<>>
      [] x.t = "dict" -> x # EmptyDict

\* True if data == {} else False
IsEmpty(data) == Return(PyBool(data = EmptyDict))

\* bool(data)
IsTruthy(data) == Return(PyBool(bool(data)))

\* IssuesMixin.move_issue
move_issue(self_repo_id, workspace_id, repo_id, issue_number, pipeline_id, position, response) ==
    Requested(repo_id,
              Request("POST",
                      "/p2/workspaces/:workspace_id/repositories/:repo_id/issues/:issue_number/moves",
                      repo_id, PyNone),
              response, IsEmpty)

\* IssuesMixin.move_issue_in_oldest_workspace
move_issue_in_oldest_workspace(self_repo_id, repo_id, issue_number, pipeline_id, position, response) ==
    Requested(repo_id,
              Request("POST", "/p1/repositories/:repo_id/issues/:issue_number/moves",
                      repo_id, PyNone),
              response, IsEmpty)

\* EpicsMixin.convert_epic_to_issue
convert_epic_to_issue(self_repo_id, repo_id, issue_number, response) ==
    Requested(repo_id,
              Request("POST",
                      "/p1/repositories/:repo_id/epics/:issue_number/convert_to_issue",
                      repo_id, PyNone),
              response, IsEmpty)

\* EpicsMixin.convert_issue_to_epic
convert_issue_to_epic(self_repo_id, repo_id, issue_number, response) ==
    Requested(repo_id,
              Request("POST",
                      "/p1/repositories/:repo_id/issues/:issue_number/convert_to_epic",
                      repo_id, PyNone),
              response, IsTruthy)

\* DependenciesMixin.remove_dependency: the blocked repository is the one
\* remembered.
remove_dependency(self_repo_id, blocking_repo_id, blocked_repo_id, response) ==
    Requested(blocked_repo_id,
              Request("DELETE", "/p1/dependencies", PyNone, PyNone),
              response, IsEmpty)

-----------------------------------------------------------------------------
(* zenhub/core/__init__.py: the base url of a client.  A url is held as
   the sequence of its characters. *)

\* "https://api.zenhub.com"
DEFAULT_BASE_URL ==
    <<"h", "t", "t", "p", "s", ":", "/", "/", "a", "p", "i", ".",
       "z", "e", "n", "h", "u", "b", ".", "c", "o", "m">>

\* "https://enterprise.com"
ENTERPRISE_URL ==
    <<"h", "t", "t", "p", "s", ":", "/", "/", "e", "n", "t", "e", "r", "p", "r", "i",
       "s", "e", ".", "c", "o", "m">>

\* s.endswith("/")
EndsWithSlash(s) == s # <<>> /\ s[Len(s)] = "/"

Mutant_Zenhub_base_url_AlwaysSlash(base_url, enterprise) ==
    IF enterprise = 3 /\ base_url # DEFAULT_BASE_URL
    THEN base_url \o <<"/", "a", "p", "i">>
    ELSE base_url

\* Zenhub.__init__: self._base_url
Zenhub_base_url(base_url, enterprise) ==
    IF enterprise = 3 /\ base_url # DEFAULT_BASE_URL
    THEN IF EndsWithSlash(base_url)
         THEN base_url \o <<"a", "p", "i">>
         ELSE base_url \o <<"/", "a", "p", "i">>
    ELSE base_url

-----------------------------------------------------------------------------
(* The last call *)

NoCall ==
    [ outcome |-> Return(PyNone), sent |-> <<>>, op |-> "", args |-> <<>>,
      received |-> <<>>, before |-> PyNone ]

\* A completed call of operation `op`: `sent` are the HTTP requests it
\* issued, `received` the responses to them, `before` the remembered
\* repository id it started from.
Call(op, args, sent, received, outcome) ==
    [ outcome |-> outcome, sent |-> sent, op |-> op, args |-> args,
      received |-> received, before |-> _repo_id ]

\* A call of a client method: `done` is what the method did when the server
\* answers `response` to the request it sends, if it sends one.
Method(op, args, done, response) ==
    /\ _repo_id' = done.repo
    /\ UNCHANGED <<shared, second_repo_id, callers, _output_models, probe>>
    /\ call' = Call(op, args, done.sent,
                    IF done.sent = <<>> THEN <<>> ELSE <<response>>,
                    done.outcome)

\* The headers of a window in which 3 of 100 requests are used.
TypicalHeaders ==
    Headers(HeaderText(<<"3">>), HeaderText(<<"1", "0", "0">>),
            HeaderText(IntToChars(ServerSeconds + MaxWindow)), ServerDateMay)

\* The statuses with which the server answers the probe.
ProbeStatuses == {200, 401, 403, 404}

\* The callers: A, and B for the behaviours of two callers.
Callers == {"A", "B"}

\* A caller that is in no method: `own` is the repository of the last
\* method it called with a repository id, `local` the value of the local
\* repo_id of the method it is in, `probed` the repository its last
\* rate_limit() sent the probe to.
Idle == [probed |-> PyNone, pc |-> "idle", own |-> PyNone, local |-> PyNone]

\* One instance and one caller that runs each method from its first
\* statement to its last.
OneCaller ==
    /\ shared = FALSE
    /\ second_repo_id = PyNone
    /\ callers = [c \in Callers |-> Idle]

\* A client just constructed; the server answers a probe with one of the
\* statuses and the headers of a typical window.
Init ==
    /\ _repo_id = PyNone
    /\ OneCaller
    /\ _output_models \in BOOLEAN
    /\ probe \in { HeadResponse(s, TypicalHeaders) : s \in ProbeStatuses }
    /\ call = NoCall

\* A client just constructed; the server answers a probe with status 200
\* and any of the header combinations.
InitRate ==
    /\ _repo_id = PyNone
    /\ OneCaller
    /\ _output_models \in BOOLEAN
    /\ probe \in { HeadResponse(200, h) : h \in RateHeaders }
    /\ call = NoCall

\* utils.parse_response_contents(response), called directly.
ParseResponseContents ==
    \E response \in Responses :
        /\ call' = Call("parse_response_contents", <<response>>, <<>>, <<>>,
                        parse_response_contents(response))
        /\ UNCHANGED <<_repo_id, shared, second_repo_id, callers, _output_models, probe>>

\* utils.check_dates(start_date, desired_end_date), called directly.
CheckDates ==
    \E start_date \in Datetimes, desired_end_date \in Datetimes :
        /\ call' = Call("check_dates", <<start_date, desired_end_date>>, <<>>, <<>>,
                        check_dates(start_date, desired_end_date))
        /\ UNCHANGED <<_repo_id, shared, second_repo_id, callers, _output_models, probe>>

\* The datetimes that are written: midnight of 2020-01-01
\* (zenhub/tests/test_utils.py) and 2017-10-03T17:48:02, each with no
\* fraction of a second, with whole milliseconds and with a microsecond
\* beyond them, naive and as the same instant in UTC, at +05:30 and at -08:00.
WrittenDatetimes ==
    LET instants == { SecondsOf(2020, 1, 1, 0, 0, 0), SecondsOf(2017, 10, 3, 17, 48, 2) }
        micros   == {0, 701000, 701001}
    IN  { DatetimeAt(ts, us, FALSE, 0) : ts \in instants, us \in micros }
        \cup { DatetimeAt(ts, us, TRUE, off) :
                  ts \in instants, us \in micros, off \in {0, 330, -480} }

\* The date strings that are read: what date_to_string writes, the same
\* without the Z, a date alone, a date and time to the second with a Z
\* (zenhub/tests/test_utils.py), and texts that are no date.
ReadStrings ==
    { date_to_string(d) : d \in WrittenDatetimes }
    \cup { isoformat_milliseconds(d) : d \in WrittenDatetimes }
    \cup { <<"2", "0", "2", "0", "-", "0", "1", "-", "0", "1">>,
           <<"2", "0", "2", "0", "-", "0", "1", "-", "0", "1", "T",
             "0", "0", ":", "0", "0", ":", "0", "0", "Z">>,
           <<"2", "0", "2", "0", "-", "1", "3", "-", "0", "1">>,
           <<"s", "o", "o", "n">>,
           <<>> }

\* utils.date_to_string(date), called directly.
DateToString ==
    \E date \in WrittenDatetimes :
        /\ call' = Call("date_to_string", <<date>>, <<>>, <<>>,
                        Return(HeaderText(date_to_string(date))))
        /\ UNCHANGED <<_repo_id, shared, second_repo_id, callers, _output_models, probe>>

\* utils.string_to_date(date_string), called directly.
StringToDate ==
    \E date_string \in ReadStrings :
        /\ call' = Call("string_to_date", <<HeaderText(date_string)>>, <<>>, <<>>,
                        string_to_date(date_string))
        /\ UNCHANGED <<_repo_id, shared, second_repo_id, callers, _output_models, probe>>

\* Zenhub(token, base_url, enterprise), for the url of the cloud and the
\* url of an enterprise server (zenhub/core/tests/test_zenhub.py), each with
\* and without a slash at its end, and the enterprise versions 2, 3 and 4.
BaseUrls ==
    { DEFAULT_BASE_URL, DEFAULT_BASE_URL \o <<"/">>,
      ENTERPRISE_URL, ENTERPRISE_URL \o <<"/">> }

Construct ==
    \E base_url \in BaseUrls, enterprise \in {2, 3, 4} :
        /\ call' = Call("Zenhub", <<HeaderText(base_url), PyInt(enterprise)>>, <<>>, <<>>,
                        Return(HeaderText(Zenhub_base_url(base_url, enterprise))))
        /\ UNCHANGED <<_repo_id, shared, second_repo_id, callers, _output_models, probe>>

NextUtils ==
    ParseResponseContents \/ CheckDates \/ DateToString \/ StringToDate \/ Construct

SpecUtils == Init /\ [][NextUtils]_vars

CreateReleaseReport ==
    \E repo_id \in RepoIds, start_date \in Datetimes, desired_end_date \in Datetimes,
       response \in ClientResponses :
        Method("create_release_report", <<repo_id, start_date, desired_end_date>>,
               create_release_report(_repo_id, repo_id, start_date,
                                     desired_end_date, response),
               response)

EditReleaseReport ==
    \E start_date \in Datetimes, desired_end_date \in Datetimes,
       state \in ReportStates, response \in ClientResponses :
        Method("edit_release_report",
               <<RELEASE_REPORT, start_date, desired_end_date, state>>,
               edit_release_report(_repo_id, RELEASE_REPORT, start_date,
                                   desired_end_date, state, response),
               response)

AddRepoToReleaseReport ==
    \E repo_id \in RepoIds, response \in ClientResponses :
        Method("add_repo_to_release_report", <<RELEASE_REPORT, repo_id>>,
               add_repo_to_release_report(_repo_id, RELEASE_REPORT, repo_id, response),
               response)

RemoveRepoFromReleaseReport ==
    \E repo_id \in RepoIds, response \in ClientResponses :
        Method("remove_repo_from_release_report", <<RELEASE_REPORT, repo_id>>,
               remove_repo_from_release_report(_repo_id, RELEASE_REPORT, repo_id,
                                               response),
               response)

\* The responses to the request of an operation: success with one of the
\* bodies, or one of the error responses.
ResponsesOf(bodies) == { Response(200, b) : b \in bodies } \cup ErrorResponses

GetEpics ==
    \E repo_id \in RepoIds, response \in ResponsesOf({BodyEpics, "{}"}) :
        Method("get_epics", <<repo_id>>, get_epics(_repo_id, repo_id, response),
               response)

GetDependencies ==
    \E repo_id \in RepoIds,
       response \in ResponsesOf({BodyDependencies, BodyDependenciesOneBad, "{}"}) :
        Method("get_dependencies", <<repo_id>>,
               get_dependencies(_repo_id, repo_id, response), response)

\* create_dependency; the server may also answer 201 Created.
CreateDependency ==
    \E blocking_repo_id \in RepoIds, blocked_repo_id \in RepoIds,
       response \in ResponsesOf({BodyDependency, BodyDependencyNoBlocked, "{}", "[\"x\"]"})
                        \cup { Response(201, BodyDependency),
                               Response(201, BodyDependencyNoBlocked) } :
        Method("create_dependency", <<blocking_repo_id, blocked_repo_id>>,
               create_dependency(_repo_id, blocking_repo_id, blocked_repo_id, response),
               response)

GetWorkspaces ==
    \E repo_id \in RepoIds,
       response \in ResponsesOf({BodyWorkspaces, BodyWorkspacesOneBad, "[]", "{}", "null"}) :
        Method("get_workspaces", <<repo_id>>,
               get_workspaces(_repo_id, repo_id, response), response)

BoardBodies == {BodyBoard, BodyBoardOneBad, BodyBoardNumberOnly}

GetOldestRepositoryBoard ==
    \E repo_id \in RepoIds, response \in ResponsesOf(BoardBodies) :
        Method("get_oldest_repository_board", <<repo_id>>,
               get_oldest_repository_board(_repo_id, repo_id, response), response)

GetRepositoryBoard ==
    \E repo_id \in RepoIds, response \in ResponsesOf(BoardBodies) :
        Method("get_repository_board", <<WORKSPACE, repo_id>>,
               get_repository_board(_repo_id, WORKSPACE, repo_id, response), response)

IssueDataBodies ==
    { BodyIssueData, BodyIssueDataNoEstimate, BodyIssueDataEstimateZero,
      BodyIssueDataOtherPipeline, BodyIssueDataNoPipelines, BodyIssueDataNoEpic }

GetIssueData ==
    \E repo_id \in RepoIds, response \in ResponsesOf(IssueDataBodies) :
        Method("get_issue_data", <<repo_id, ISSUE_NUMBER>>,
               get_issue_data(_repo_id, repo_id, ISSUE_NUMBER, response), response)

EventsBodies ==
    { BodyEvents, BodyEventsOther, BodyEventsUnordered, BodyEventsNoUser,
      BodyEventsBadDate, BodyEventsNoType, "[]" }

GetIssueEvents ==
    \E repo_id \in RepoIds, response \in ResponsesOf(EventsBodies) :
        Method("get_issue_events", <<repo_id, ISSUE_NUMBER>>,
               get_issue_events(_repo_id, repo_id, ISSUE_NUMBER, response), response)

GetReleaseReports ==
    \E repo_id \in RepoIds,
       response \in ResponsesOf({BodyReports, BodyReportsOneBad, "[]"}) :
        Method("get_release_reports", <<repo_id>>,
               get_release_reports(_repo_id, repo_id, response), response)

GetReleaseReportIssues ==
    \E response \in ResponsesOf({BodyIssues, BodyIssuesOneBad, BodyTitle}) :
        Method("get_release_report_issues", <<RELEASE_REPORT>>,
               get_release_report_issues(_repo_id, RELEASE_REPORT, response), response)

AddOrRemoveIssuesFromReleaseReport ==
    \E response \in ResponsesOf({BodyAddedRemoved, BodyAddedRemovedCount, BodyAddedOnly}) :
        Method("add_or_remove_issues_from_release_report", <<RELEASE_REPORT>>,
               add_or_remove_issues_from_release_report(_repo_id, RELEASE_REPORT,
                                                        response),
               response)

\* The responses to the request of an operation that returns a bool:
\* success with an empty object, with a message, with no content, or one of
\* the error responses.
BooleanResponses ==
    { Response(200, "{}"), Response(200, BodySuccess), Response(204, "") }
        \cup ErrorResponses

MoveIssue ==
    \E repo_id \in RepoIds, position \in Positions, response \in BooleanResponses :
        Method("move_issue", <<WORKSPACE, repo_id, ISSUE_NUMBER, PIPELINE, position>>,
               move_issue(_repo_id, WORKSPACE, repo_id, ISSUE_NUMBER, PIPELINE,
                          position, response),
               response)

MoveIssueInOldestWorkspace ==
    \E repo_id \in RepoIds, position \in Positions, response \in BooleanResponses :
        Method("move_issue_in_oldest_workspace",
               <<repo_id, ISSUE_NUMBER, PIPELINE, position>>,
               move_issue_in_oldest_workspace(_repo_id, repo_id, ISSUE_NUMBER, PIPELINE,
                                              position, response),
               response)

ConvertEpicToIssue ==
    \E repo_id \in RepoIds, response \in BooleanResponses :
        Method("convert_epic_to_issue", <<repo_id, ISSUE_NUMBER>>,
               convert_epic_to_issue(_repo_id, repo_id, ISSUE_NUMBER, response),
               response)

ConvertIssueToEpic ==
    \E repo_id \in RepoIds, response \in BooleanResponses :
        Method("convert_issue_to_epic", <<repo_id, ISSUE_NUMBER>>,
               convert_issue_to_epic(_repo_id, repo_id, ISSUE_NUMBER, response),
               response)

RemoveDependency ==
    \E blocking_repo_id \in RepoIds, blocked_repo_id \in RepoIds,
       response \in BooleanResponses :
        Method("remove_dependency", <<blocking_repo_id, blocked_repo_id>>,
               remove_dependency(_repo_id, blocking_repo_id, blocked_repo_id, response),
               response)

\* rate_limit(repo_id), the server answering the probe with its headers.
RateLimitCall ==
    \E repo_id \in {PyNone} \cup RepoIds :
        Method("rate_limit", <<repo_id>>, rate_limit(_repo_id, repo_id, probe), probe)

NextRate == RateLimitCall \/ AddRepoToReleaseReport

SpecRate == InitRate /\ [][NextRate]_vars

Next ==
    \/ CreateReleaseReport
    \/ EditReleaseReport
    \/ AddRepoToReleaseReport
    \/ RemoveRepoFromReleaseReport
    \/ RateLimitCall
    \/ GetEpics
    \/ GetDependencies
    \/ CreateDependency
    \/ GetWorkspaces
    \/ GetOldestRepositoryBoard
    \/ GetReleaseReports
    \/ GetReleaseReportIssues
    \/ AddOrRemoveIssuesFromReleaseReport

Spec == Init /\ [][Next]_vars

\* The operations on issues and boards.  The client is in either mode and
\* no rate limit is asked, so the answer to the probe is the typical one.
InitIssues ==
    /\ _repo_id = PyNone
    /\ OneCaller
    /\ _output_models \in BOOLEAN
    /\ probe = HeadResponse(200, TypicalHeaders)
    /\ call = NoCall

NextIssues ==
    \/ MoveIssue
    \/ MoveIssueInOldestWorkspace
    \/ ConvertEpicToIssue
    \/ ConvertIssueToEpic
    \/ RemoveDependency
    \/ GetOldestRepositoryBoard
    \/ GetRepositoryBoard
    \/ GetIssueData
    \/ GetIssueEvents

SpecIssues == InitIssues /\ [][NextIssues]_vars

-----------------------------------------------------------------------------
(* Two callers.  Each statement of a method is one step, and a step of the
   other caller can come between any two of them: `self._repo_id = repo_id`
   and the request of get_issue_data, `repo_id = repo_id or self._repo_id`
   and the probe of rate_limit. *)

\* The instance of caller c: the first one for A and, when the callers
\* share, for B.
Mutant_OnFirstInstance_Always(c) == TRUE

OnFirstInstance(c) == shared \/ c = "A"

\* self._repo_id as caller c reads it.
Remembered(c) == IF OnFirstInstance(c) THEN _repo_id ELSE second_repo_id

\* self._repo_id = repo_id, by caller c.
Remember(c, repo_id) ==
    IF OnFirstInstance(c)
    THEN _repo_id' = repo_id /\ UNCHANGED second_repo_id
    ELSE second_repo_id' = repo_id /\ UNCHANGED _repo_id

\* The responses to get_issue_data of the two callers.
SharedResponses == {Response(200, BodyIssueData), Response(404, BodySuccess)}

\* Two callers, each on an instance just constructed or both on one.
InitShared ==
    /\ _repo_id = PyNone
    /\ shared \in BOOLEAN
    /\ second_repo_id = PyNone
    /\ callers = [c \in Callers |-> Idle]
    /\ _output_models \in BOOLEAN
    /\ probe = HeadResponse(200, TypicalHeaders)
    /\ call = NoCall

\* get_issue_data, `self._repo_id = repo_id`: what the method remembers,
\* before its request.
GetIssueDataAssign ==
    \E c \in Callers, repo_id \in RepoIds :
        /\ callers[c].pc = "idle"
        /\ Remember(c, get_issue_data(Remembered(c), repo_id, ISSUE_NUMBER,
                                      Response(200, BodyIssueData)).repo)
        /\ callers' = [callers EXCEPT ![c] = [probed |-> PyNone, pc |-> "assigned",
                                               own |-> repo_id, local |-> repo_id]]
        /\ UNCHANGED <<shared, _output_models, probe, call>>

\* get_issue_data, `data = self._get(url)` to the return.
GetIssueDataRequest ==
    \E c \in Callers, response \in SharedResponses :
        /\ callers[c].pc = "assigned"
        /\ LET done == get_issue_data(Remembered(c), callers[c].local, ISSUE_NUMBER,
                                       response)
           IN  call' = Call("get_issue_data", <<callers[c].local, ISSUE_NUMBER>>,
                            done.sent, <<response>>, done.outcome)
        /\ callers' = [callers EXCEPT ![c].pc = "idle"]
        /\ UNCHANGED <<_repo_id, shared, second_repo_id, _output_models, probe>>

\* rate_limit(), `repo_id = repo_id or self._repo_id` and the raise when
\* nothing is remembered.
RateLimitRead ==
    \E c \in Callers :
        /\ callers[c].pc = "idle"
        /\ LET done == rate_limit(Remembered(c), PyNone, probe)
           IN  IF done.sent = <<>>
               THEN /\ call' = Call("rate_limit", <<PyNone>>, <<>>, <<>>, done.outcome)
                    /\ callers' = [callers EXCEPT ![c].probed = PyNone]
               ELSE /\ callers' = [callers EXCEPT ![c].pc = "read",
                                                  ![c].local = done.sent[1].repo_id,
                                                  ![c].probed = PyNone]
                    /\ UNCHANGED call
        /\ UNCHANGED <<_repo_id, shared, second_repo_id, _output_models, probe>>

\* rate_limit(), the HEAD request for the repository of the local repo_id,
\* to the return.
RateLimitProbe ==
    \E c \in Callers :
        /\ callers[c].pc = "read"
        /\ LET done == rate_limit(Remembered(c), callers[c].local, probe)
           IN  /\ call' = Call("rate_limit", <<PyNone>>, done.sent, <<probe>>,
                               done.outcome)
               /\ callers' = [callers EXCEPT ![c].pc = "idle",
                                             ![c].probed = done.sent[1].repo_id]
        /\ UNCHANGED <<_repo_id, shared, second_repo_id, _output_models, probe>>

NextShared ==
    \/ GetIssueDataAssign
    \/ GetIssueDataRequest
    \/ RateLimitRead
    \/ RateLimitProbe

SpecShared == InitShared /\ [][NextShared]_vars

-----------------------------------------------------------------------------
(* Properties of the classifier and of check_dates, under SpecUtils *)

IsParseCall == call.op = "parse_response_contents"

ErrorStatuses == {401, 403, 404}

\* C1: for every response with status 200 or 204, parse_response_contents
\* returns the decoded JSON body unchanged, and returns an empty mapping,
\* without raising, when the body is empty or is not valid JSON.
C1_SuccessReturnsDecodedBody ==
    IsParseCall /\ call.args[1].status_code \in {200, 204} =>
        LET decoded == JsonLoads(call.args[1].text)
        IN  /\ call.outcome.kind = "return"
            /\ decoded.kind = "return" => call.outcome.value = decoded.value
            /\ decoded.kind = "raise" => call.outcome.value = EmptyDict

\* A 204 response with a JSON object body has been classified: the object
\* came back.
C1_Witness ==
    /\ IsParseCall
    /\ call.args[1] = Response(204, BodySuccess)
    /\ call.outcome = Return(PyDict([message |-> MessageSuccess]))

\* C2: whatever the body (valid JSON, empty, undecodable), status 401 raises
\* InvalidTokenError, 403 raises APILimitError and 404 raises NotFoundError.
C2_StatusDecidesErrorKind ==
    IsParseCall /\ call.args[1].status_code \in ErrorStatuses =>
        /\ call.outcome.kind = "raise"
        /\ call.outcome.exc =
              CASE call.args[1].status_code = 401 -> "InvalidTokenError"
                [] call.args[1].status_code = 403 -> "APILimitError"
                [] call.args[1].status_code = 404 -> "NotFoundError"

\* A 403 response whose body carries a `message` has been classified as
\* APILimitError.
C2_Witness ==
    /\ IsParseCall
    /\ call.args[1] = Response(403, BodyValidation)
    /\ call.outcome.exc = "APILimitError"

\* The message the generic error is to carry: the decoded body's `message`
\* when the body is a JSON object that has one, the fallback otherwise.
ExpectedMessage(text) ==
    LET decoded == JsonLoads(text)
    IN  IF /\ decoded.kind = "return"
           /\ decoded.value.t = "dict"
           /\ "message" \in DOMAIN decoded.value.items
        THEN decoded.value.items["message"]
        ELSE PyStr("Unknown error!")

\* C3: for every status other than 200, 204, 401, 403 and 404 and every body
\* (a JSON object, another JSON value, an undecodable body) the classifier
\* raises ZenhubError carrying the body's `message`, else the fallback string.
C3_OtherStatusRaisesZenhubError ==
    IsParseCall /\ call.args[1].status_code \notin ({200, 204} \cup ErrorStatuses) =>
        call.outcome = Raise("ZenhubError", ExpectedMessage(call.args[1].text))

\* C4: every failure of the classifier is caught by a handler for ZenhubError,
\* and a handler for one of the three specific kinds catches only that kind.
C4_OneTaxonomy ==
    IsParseCall /\ call.outcome.kind = "raise" =>
        /\ Catches("ZenhubError", call.outcome)
        /\ \A handler \in {"InvalidTokenError", "APILimitError", "NotFoundError"} :
               Catches(handler, call.outcome) => call.outcome.exc = handler

IsCheckDatesCall == call.op = "check_dates"

\* C7: check_dates(start, end) succeeds when start <= end, the boundary
\* start = end included, and raises a ValueError exactly when start > end.
C7_CheckDates ==
    IsCheckDatesCall =>
        LET start == call.args[1]
            end   == call.args[2]
            comparable == start.aware = end.aware
        IN  /\ comparable /\ start.ts <= end.ts => call.outcome = Return(PyBool(TRUE))
            /\ Catches("ValueError", call.outcome) <=> (comparable /\ start.ts > end.ts)

\* check_dates has been called with start = end and has succeeded.
C7_Witness ==
    /\ IsCheckDatesCall
    /\ call.args[1] = call.args[2]
    /\ call.outcome = Return(PyBool(TRUE))

-----------------------------------------------------------------------------
(* Properties of the release report operations, under Spec *)

\* start is later than end: both naive or both aware, and after it.
Later(start, end) == start.aware = end.aware /\ start.ts > end.ts

LegalStates == { PyNone, PyStr("open"), PyStr("closed") }

\* The last call was a create or edit of a release report that fails a
\* client-side precondition: start_date later than desired_end_date, or
\* (edit) a state that is neither None nor 'open' nor 'closed'.
PreconditionFails ==
    \/ /\ call.op = "create_release_report"
       /\ Later(call.args[2], call.args[3])
    \/ /\ call.op = "edit_release_report"
       /\ \/ Later(call.args[2], call.args[3])
          \/ call.args[4] \notin LegalStates

\* The last call was an edit with an illegal state whose two dates cannot be
\* compared: one is naive, the other timezone-aware.
IllegalStateMixedDates ==
    /\ call.op = "edit_release_report"
    /\ call.args[4] \notin LegalStates
    /\ call.args[2].aware # call.args[3].aware

\* C5 as first stated: a create or edit with start_date later than
\* desired_end_date, or an edit with an illegal state, raises ValueError and
\* has issued no HTTP request.
C5_PreconditionValueErrorNoRequest ==
    PreconditionFails =>
        /\ call.outcome.kind = "raise"
        /\ call.outcome.exc = "ValueError"
        /\ call.sent = <<>>

\* C5, amended: such a call raises before any HTTP request is issued; the
\* error is a ValueError, except that an edit with an illegal state and one
\* naive and one timezone-aware date raises the TypeError of the date
\* comparison.
C5_PreconditionErrorBeforeRequest ==
    PreconditionFails =>
        /\ call.outcome.kind = "raise"
        /\ call.outcome.exc = IF IllegalStateMixedDates THEN "TypeError" ELSE "ValueError"
        /\ call.sent = <<>>

\* An edit with an illegal state and dates in order has raised ValueError
\* with no request sent.
C5_Witness ==
    /\ call.op = "edit_release_report"
    /\ call.args[4] = PyStr("BLAH")
    /\ call.args[2].aware = call.args[3].aware
    /\ call.args[2].ts <= call.args[3].ts
    /\ call.outcome.exc = "ValueError"
    /\ call.sent = <<>>

\* C6: a call that fails a client-side precondition leaves the client's
\* state, the remembered repository id included, as it was before the call.
C6_FailedPreconditionLeavesState ==
    PreconditionFails => _repo_id = call.before

-----------------------------------------------------------------------------
(* Properties of the rate window computation, under SpecRate *)

\* The last call was a rate_limit that probed the server.
IsRateProbe == call.op = "rate_limit" /\ call.sent # <<>>

\* A used, limit or reset header that is missing, None or no number.
MissingOrNonNumeric(header) == header \in {Absent, PyNone, NotANumber}

\* The reset headers that write a timestamp, and the timestamp written.
ValidResetHeaders == ResetHeaders \ {Absent, PyNone, NotANumber}

ResetInstant(header) == DigitsValue(header.chars)

\* The abbreviated month names of an HTTP date.
MonthAbbreviations ==
    {"Jan", "Feb", "Mar", "Apr", "May", "Jun", "Jul", "Aug", "Sep", "Oct", "Nov", "Dec"}

\* The Date headers that are an HTTP date (abbreviated weekday and month,
\* GMT), and the instant each names.
ValidDateHeaders ==
    { h \in DateHeaders :
        /\ h.t = "str"
        /\ "date" \in DOMAIN h
        /\ h.date.wd \in WeekdayNames
        /\ h.date.month \in MonthAbbreviations
        /\ h.date.tz = "GMT" }

ServerInstant(header) ==
    IF header = ServerDateMay THEN ServerSeconds
    ELSE SecondsOf(2022, 11, 1, 0, 0, 10)

\* C8: for every combination of the four headers, each valid, absent, None or
\* non-numeric, rate_limit returns a snapshot without raising, and every field
\* whose header is missing or non-numeric is -1.
C8_RateLimitNeverRaises ==
    IsRateProbe =>
        /\ call.outcome.kind = "return"
        /\ MissingOrNonNumeric(call.received[1].headers.used)
               => call.outcome.value.items.used = PyInt(-1)
        /\ MissingOrNonNumeric(call.received[1].headers.limit)
               => call.outcome.value.items.limit = PyInt(-1)
        /\ MissingOrNonNumeric(call.received[1].headers.reset)
               => call.outcome.value.items.reset = PyInt(-1)

\* C9: for every valid reset timestamp R and valid server date S the reset
\* field that rate_limit returns is R - S in whole seconds, a signed
\* difference, and is at least 0 when R is not before S.
C9_ResetIsSignedDelta ==
    /\ IsRateProbe
    /\ call.received[1].headers.reset \in ValidResetHeaders
    /\ call.received[1].headers.date \in ValidDateHeaders
    /\ call.outcome.kind = "return"
    => LET R == ResetInstant(call.received[1].headers.reset)
           S == ServerInstant(call.received[1].headers.date)
       IN  /\ call.outcome.value.items.reset = PyInt(R - S)
           /\ R >= S => call.outcome.value.items.reset.i >= 0

\* C10: whenever the reset header and the Date header both parse, the reset
\* field is (R - S) modulo 86400, so it lies in 0..86399 and is never
\* negative; a reset instant d seconds before the server instant, 0 < d <
\* 86400, is reported as 86400 - d.
C10_ResetIsDeltaModuloDay ==
    /\ IsRateProbe
    /\ int(HeadersGet(call.received[1].headers, "reset")).kind = "return"
    /\ strptime(HeadersGet(call.received[1].headers, "date")).kind = "return"
    => LET R == int(HeadersGet(call.received[1].headers, "reset")).value.i
           S == strptime(HeadersGet(call.received[1].headers, "date")).value.ts
           reset == call.outcome.value.items.reset.i
       IN  /\ call.outcome.kind = "return"
           /\ reset = (R - S) % 86400
           /\ reset \in 0..86399
           /\ (S - R > 0 /\ S - R < 86400) => reset = 86400 - (S - R)

\* A probe has been answered with a reset instant MaxLag seconds before the
\* server's clock, and rate_limit has reported 86400 - MaxLag.
C10_Witness ==
    /\ IsRateProbe
    /\ call.received[1].headers.reset = HeaderText(IntToChars(ServerSeconds - MaxLag))
    /\ call.received[1].headers.date = ServerDateMay
    /\ call.outcome.kind = "return"
    /\ call.outcome.value.items.reset = PyInt(86400 - MaxLag)

-----------------------------------------------------------------------------
(* Properties of the remembered repository id and of the requests *)

\* The HEAD request with which rate_limit probes a repository.
ProbeOf(repo_id) ==
    Request("HEAD", "/p2/repositories/:repo_id/workspaces", repo_id, PyNone)

RepoArgs ==
    CASE call.op \in { "create_release_report", "get_epics", "get_dependencies",
                       "get_workspaces", "get_oldest_repository_board",
                       "get_release_reports" } -> {call.args[1]}
      [] call.op \in {"add_repo_to_release_report", "remove_repo_from_release_report",
                      "move_issue", "get_repository_board"}
            -> {call.args[2]}
      [] call.op \in { "move_issue_in_oldest_workspace", "convert_epic_to_issue",
                       "convert_issue_to_epic", "get_issue_data",
                       "get_issue_events" } -> {call.args[1]}
      [] call.op \in {"create_dependency", "remove_dependency"}
            -> {call.args[1], call.args[2]}
      [] call.op = "rate_limit" -> {call.args[1]} \ {PyNone}
      [] OTHER -> {}

\* C12: after every call the remembered repository id is the repository id
\* passed to the most recent call that took one, whether that call succeeded
\* or failed: a call that takes a repository id overwrites it, a call that
\* takes none leaves it.
C12_RememberedIsLastRepository ==
    call.op # "" =>
        IF RepoArgs = {} THEN _repo_id = call.before ELSE _repo_id \in RepoArgs

\* The last call passed its client-side preconditions: dates in order,
\* a legal state, a repository to probe.
PassesPreconditions ==
    CASE call.op = "create_release_report" ->
            call.args[2].aware = call.args[3].aware /\ call.args[2].ts <= call.args[3].ts
      [] call.op = "edit_release_report" ->
            /\ call.args[2].aware = call.args[3].aware
            /\ call.args[2].ts <= call.args[3].ts
            /\ call.args[4] \in LegalStates
      [] call.op = "rate_limit" -> call.args[1] # PyNone \/ call.before # PyNone
      [] OTHER -> call.op # ""

\* C13: every call that passes its client-side preconditions issues exactly
\* one HTTP request, whatever the response; when the response is an error
\* (a status other than 200 and 204) no second request follows and the call
\* raises.
C13_OneRequestPerCall ==
    PassesPreconditions =>
        /\ Len(call.sent) = 1
        /\ Len(call.received) = 1
        /\ call.received[1].status_code \notin {200, 204} => call.outcome.kind = "raise"

\* C14: whatever the operation, rate_limit included, a response with status
\* 401, 403 or 404 makes the call raise InvalidTokenError, APILimitError or
\* NotFoundError.
C14_ErrorStatusSurfaced ==
    call.sent # <<>> /\ call.received[1].status_code \in ErrorStatuses =>
        /\ call.outcome.kind = "raise"
        /\ call.outcome.exc =
              CASE call.received[1].status_code = 401 -> "InvalidTokenError"
                [] call.received[1].status_code = 403 -> "APILimitError"
                [] call.received[1].status_code = 404 -> "NotFoundError"

-----------------------------------------------------------------------------
(* Properties of the validation of response bodies, under Spec *)

\* The decoded body of the response to the last call.
RawBody == ResponseContents(call.received[1])

\* The bodies that do not match the schema of a dependency.
NotADependency == { BodyDependencyNoBlocked, "{}", "[\"x\"]" }

\* C15: create_dependency answered with a 2xx status and a body that does
\* not match the schema (a dependency without `blocked`) raises a validation
\* error, which is a ValueError and no ZenhubError; answered with a 2xx
\* status and a body with `blocking` and `blocked` well-formed it returns the
\* dependency.
C15_ValidationErrorOutsideTaxonomy ==
    /\ call.op = "create_dependency"
    /\ call.received[1].status_code \in 200..299
    => /\ call.received[1].text \in NotADependency =>
              /\ Catches("ValueError", call.outcome)
              /\ ~Catches("ZenhubError", call.outcome)
       /\ call.received[1].text = BodyDependency =>
              call.outcome = Return(DependencyValue)

\* The operations that return the projection of one model, and those that
\* return a list of projections.
ModelOperations ==
    { "create_release_report", "edit_release_report", "get_epics",
      "get_dependencies", "create_dependency", "get_oldest_repository_board",
      "add_or_remove_issues_from_release_report", "get_repository_board",
      "get_issue_data" }

ListOperations ==
    { "get_workspaces", "get_release_reports", "get_release_report_issues" }

\* C16: in dict mode the keys of a returned structure are keys of the raw
\* response (of the raw element, for a list), and
\* add_or_remove_issues_from_release_report returns a raw response
\* {added: [...], removed: [...]} as it is.
C16_DictModeKeysFromRaw ==
    (~_output_models /\ call.outcome.kind = "return") =>
        /\ call.op \in ModelOperations =>
               DOMAIN call.outcome.value.items \subseteq DOMAIN RawBody.items
        /\ (call.op \in ListOperations /\ RawBody.t = "list") =>
               /\ Len(call.outcome.value.elems) = Len(RawBody.elems)
               /\ \A i \in DOMAIN RawBody.elems :
                      DOMAIN call.outcome.value.elems[i].items
                          \subseteq DOMAIN RawBody.elems[i].items
        /\ (/\ call.op = "add_or_remove_issues_from_release_report"
            /\ call.received[1].text = BodyAddedRemoved) =>
               call.outcome.value = RawBody

\* get_workspaces has returned two workspaces, the second without the
\* `description` that the server did not send.
C16_Witness ==
    /\ call.op = "get_workspaces"
    /\ call.received[1].text = BodyWorkspaces
    /\ call.outcome.kind = "return"
    /\ call.outcome.value.elems[2] = WorkspaceRoadmap
    /\ "description" \notin DOMAIN call.outcome.value.elems[2].items

\* The list-valued success bodies with one invalid element.
OneBadBodies ==
    { BodyDependenciesOneBad, BodyWorkspacesOneBad, BodyReportsOneBad,
      BodyIssuesOneBad, BodyBoardOneBad, BodyEventsNoUser, BodyEventsBadDate }

\* The operations whose response holds a list of elements to validate.
ListValuedOperations ==
    ListOperations \cup { "get_dependencies", "get_oldest_repository_board",
                          "get_repository_board", "get_issue_events" }

\* C20: a list-valued success response with one invalid element makes the
\* whole call raise a validation error; no list without that element is
\* returned.
C20_InvalidElementFailsCall ==
    /\ call.op \in ListValuedOperations
    /\ call.received[1].status_code \in {200, 204}
    /\ call.received[1].text \in OneBadBodies
    => /\ call.outcome.kind = "raise"
       /\ call.outcome.exc = "ValidationError"
       /\ Catches("ValueError", call.outcome)

\* get_workspaces has been answered with three workspaces, the second
\* without its id, and has raised the validation error.
C20_Witness ==
    /\ call.op = "get_workspaces"
    /\ call.received[1] = Response(200, BodyWorkspacesOneBad)
    /\ call.outcome.exc = "ValidationError"

-----------------------------------------------------------------------------
(* The date strings *)

\* A datetime with no component below the millisecond.
WholeMilliseconds(date) == date.microsecond % 1000 = 0

\* C17: for every datetime t with no component below the millisecond,
\* string_to_date of what date_to_string wrote for t returns a datetime
\* equal to t.
C17_RoundTrip ==
    call.op = "string_to_date" =>
        \A t \in WrittenDatetimes :
            (WholeMilliseconds(t) /\ call.args[1].chars = date_to_string(t)) =>
                /\ call.outcome.kind = "return"
                /\ DatetimeEq(call.outcome.value, t)

\* string_to_date has read what date_to_string wrote for the aware
\* 2017-10-03T23:18:02.701+05:30 and returned that instant.
C17_Witness ==
    LET t == DatetimeAt(SecondsOf(2017, 10, 3, 17, 48, 2), 701000, TRUE, 330)
    IN  /\ call.op = "string_to_date"
        /\ call.args[1].chars = date_to_string(t)
        /\ call.outcome = Return(t)

\* The text is YYYY-MM-DDTHH:MM:SS.mmmZ: 24 characters, digits but for the
\* separators, a Z at the end.
IsMillisecondsZ(chars) ==
    /\ Len(chars) = 24
    /\ \A i \in 1..24 :
           CASE i \in {5, 8} -> chars[i] = "-"
             [] i = 11 -> chars[i] = "T"
             [] i \in {14, 17} -> chars[i] = ":"
             [] i = 20 -> chars[i] = "."
             [] i = 24 -> chars[i] = "Z"
             [] OTHER -> IsDigit(chars[i])

\* C18: date_to_string writes every datetime, naive or timezone-aware, in
\* the form YYYY-MM-DDTHH:MM:SS.mmmZ.
C18_AlwaysMillisecondsZ ==
    call.op = "date_to_string" => IsMillisecondsZ(call.outcome.value.chars)

\* date_to_string wrote a datetime of whole seconds.
WroteWholeSeconds ==
    call.op = "date_to_string" /\ call.args[1].microsecond = 0

-----------------------------------------------------------------------------
(* The classifier and the 2xx statuses, under SpecUtils *)

SuccessStatuses == 200..299

\* C27: the classifier turns no response with a 2xx status into an error;
\* it raises the generic ZenhubError only for statuses that are neither 2xx
\* nor 401, 403, 404.
C27_SuccessStatusNeverError ==
    IsParseCall =>
        /\ call.args[1].status_code \in SuccessStatuses => call.outcome.kind = "return"
        /\ (call.outcome.kind = "raise" /\ call.outcome.exc = "ZenhubError") =>
               call.args[1].status_code \notin SuccessStatuses \cup ErrorStatuses

-----------------------------------------------------------------------------
(* rate_limit and the remembered repository, under Spec *)

\* C29: rate_limit leaves the remembered repository id as it was; given a
\* repository id it probes that one, given none it probes the remembered
\* one, and raises ZenhubError without a request when none is remembered.
C29_RateLimitLeavesRemembered ==
    call.op = "rate_limit" =>
        /\ _repo_id = call.before
        /\ call.args[1] # PyNone => call.sent = <<ProbeOf(call.args[1])>>
        /\ (call.args[1] = PyNone /\ call.before # PyNone) =>
               call.sent = <<ProbeOf(call.before)>>
        /\ (call.args[1] = PyNone /\ call.before = PyNone) =>
               /\ call.sent = <<>>
               /\ call.outcome.kind = "raise"
               /\ call.outcome.exc = "ZenhubError"

\* rate_limit has probed repository 1 on a client that remembers
\* repository 2, and the client still remembers repository 2.
C29_Witness ==
    /\ call.op = "rate_limit"
    /\ call.args[1] = PyInt(1)
    /\ call.before = PyInt(2)
    /\ call.sent = <<ProbeOf(PyInt(1))>>
    /\ _repo_id = PyInt(2)

-----------------------------------------------------------------------------
(* The base url of a client, under SpecUtils *)

\* The url without the slash at its end, if it has one.
WithoutEndSlash(s) == IF EndsWithSlash(s) THEN SubSeq(s, 1, Len(s) - 1) ELSE s

\* C25: the base url of a client is the given url and /api, joined by one
\* slash, when enterprise is 3 and the given url is not the default url of
\* the cloud; in every other case it is the given url.
C25_BaseUrl ==
    call.op = "Zenhub" =>
        LET base_url   == call.args[1].chars
            enterprise == call.args[2].i
        IN  call.outcome.value.chars =
                IF enterprise = 3 /\ base_url # DEFAULT_BASE_URL
                THEN WithoutEndSlash(base_url) \o <<"/", "a", "p", "i">>
                ELSE base_url

\* A client has been made for enterprise version 3 and
\* https://enterprise.com/ and its base url is https://enterprise.com/api.
C25_Witness ==
    /\ call.op = "Zenhub"
    /\ call.args = <<HeaderText(ENTERPRISE_URL \o <<"/">>), PyInt(3)>>
    /\ call.outcome.value.chars = ENTERPRISE_URL \o <<"/", "a", "p", "i">>

-----------------------------------------------------------------------------
(* The operations that return a bool, under SpecIssues *)

BooleanOperations ==
    { "move_issue", "move_issue_in_oldest_workspace", "convert_epic_to_issue",
      "convert_issue_to_epic", "add_repo_to_release_report",
      "remove_repo_from_release_report", "remove_dependency" }

\* C24: an operation that returns a bool returns True whenever the server
\* answers with status 200 or 204, whatever the body of the response.
C24_SuccessReturnsTrue ==
    (call.op \in BooleanOperations /\ call.received[1].status_code \in {200, 204}) =>
        call.outcome = Return(PyBool(TRUE))

-----------------------------------------------------------------------------
(* The boards *)

\* The operations that return a board.
BoardOperations == {"get_repository_board", "get_oldest_repository_board"}

\* The issues of the first pipeline of a returned board.
ReturnedIssues == call.outcome.value.items.pipelines.elems[1].items.issues.elems

\* C23: a board whose issue carries only `issue_number` validates in
\* get_repository_board and get_oldest_repository_board, and the returned
\* issue holds no value for `estimate`, `position` and `is_epic`.
C23_NumberOnlyIssueValidates ==
    /\ call.op \in BoardOperations
    /\ call.received = <<Response(200, BodyBoardNumberOnly)>>
    => /\ call.outcome.kind = "return"
       /\ \A f \in {"estimate", "position", "is_epic"} :
              \/ f \notin DOMAIN ReturnedIssues[1].items
              \/ ReturnedIssues[1].items[f] = PyNone

-----------------------------------------------------------------------------
(* The issue data *)

\* The fields of IssueData that are Optional.
OptionalIssueData == { f \in DOMAIN Models.IssueData : ~Models.IssueData[f].required }

\* get_issue_data has returned.
IssueDataReturned == call.op = "get_issue_data" /\ call.outcome.kind = "return"

\* C22: an optional field of IssueData that the response omits is absent
\* from what get_issue_data returns: its key is missing in dict mode and
\* its value is None in model mode; a response without `estimate` never
\* yields an estimate of 0.
C22_OmittedOptionalIsAbsent ==
    IssueDataReturned =>
        \A f \in OptionalIssueData \ DOMAIN RawBody.items :
            IF _output_models
            THEN call.outcome.value.items[f] = PyNone
            ELSE f \notin DOMAIN call.outcome.value.items

\* get_issue_data has returned, in dict mode, the data of an issue that
\* has no estimate, and the data hold no `estimate`.
C22_Witness ==
    /\ IssueDataReturned
    /\ ~_output_models
    /\ call.received = <<Response(200, BodyIssueDataNoEstimate)>>
    /\ "estimate" \notin DOMAIN call.outcome.value.items
    /\ call.outcome.value.items.pipeline = PipelineQA

\* C26: in every issue data that get_issue_data returns, `pipeline`, when
\* present, is one of the elements of `pipelines`.
C26_PipelineAmongPipelines ==
    IssueDataReturned =>
        LET items == call.outcome.value.items
        IN  ("pipeline" \in DOMAIN items /\ items.pipeline # PyNone) =>
                /\ "pipelines" \in DOMAIN items
                /\ items.pipelines # PyNone
                /\ \E i \in DOMAIN items.pipelines.elems :
                       items.pipelines.elems[i] = items.pipeline

-----------------------------------------------------------------------------
(* The issue events *)

\* get_issue_events has returned.
EventsReturned == call.op = "get_issue_events" /\ call.outcome.kind = "return"

\* The event types that have a model.
ModelledTypes == {PyStr("estimateIssue"), PyStr("transferIssue")}

\* A returned model is the model of an event of the response.
ModelOf(model, event) ==
    /\ model.t = "model"
    /\ model.items.type = event.items.type
    /\ model.items.user_id = event.items.user_id
    /\ model.items.created_at = parse_datetime(event.items.created_at).value

\* C21: get_issue_events returns the events in the relative order of the
\* response: in dict mode the list of the response as it is, in model mode
\* models whose events are at increasing positions of the response.
C21_EventsInResponseOrder ==
    (EventsReturned /\ RawBody.t = "list") =>
        IF _output_models
        THEN LET out == call.outcome.value.elems
                 raw == RawBody.elems
             IN  \E at \in [DOMAIN out -> DOMAIN raw] :
                     /\ \A i \in DOMAIN out : ModelOf(out[i], raw[at[i]])
                     /\ \A i, j \in DOMAIN out : i < j => at[i] < at[j]
        ELSE call.outcome.value.elems = RawBody.elems

\* get_issue_events has returned, in model mode, the models of the three
\* events of the example response, the newest first.
C21_Witness ==
    /\ EventsReturned
    /\ _output_models
    /\ call.received = <<Response(200, BodyEvents)>>
    /\ Len(call.outcome.value.elems) = 3
    /\ call.outcome.value.elems[1].items.created_at
           = parse_datetime(CreatedAt(<<"1", "9">>)).value
    /\ call.outcome.value.elems[3].items.created_at
           = parse_datetime(CreatedAt(<<"1", "2">>)).value

\* The events of the response whose type has a model.
Modelled(raw) == SelectSeq(raw, LAMBDA event : event.items.type \in ModelledTypes)

\* C30: in model mode get_issue_events returns exactly the events of the
\* response whose type is estimateIssue or transferIssue, one model for
\* each and none for an event of another type; in dict mode it returns
\* every event of the response.
C30_ModelModeDropsOtherTypes ==
    (EventsReturned /\ RawBody.t = "list") =>
        IF _output_models
        THEN LET out  == call.outcome.value.elems
                 kept == Modelled(RawBody.elems)
             IN  /\ Len(out) = Len(kept)
                 /\ \A i \in DOMAIN out :
                        i \in DOMAIN kept /\ out[i] # PyNone /\ ModelOf(out[i], kept[i])
        ELSE /\ call.outcome.value = RawBody
             /\ Len(call.outcome.value.elems) = Len(RawBody.elems)

\* get_issue_events has returned, in model mode, two models for a response
\* of three events, one of them of type addEpic; dict mode returns three.
C30_Witness ==
    /\ EventsReturned
    /\ _output_models
    /\ call.received = <<Response(200, BodyEventsOther)>>
    /\ Len(call.outcome.value.elems) = 2
    /\ Len(RawBody.elems) = 3
    /\ call.outcome.value.elems[2].cls = "TransferIssueEvent"

-----------------------------------------------------------------------------
(* Two callers *)

====
